---- MODULE Spec2Model ----
(***************************************************************************)
(* SchemaPin (rust): the TOFU key pin store, the revocation gate and the   *)
(* 7-step verification flow for schemas and skills.                        *)
(*                                                                         *)
(* Option<T> values are modelled as sequences of length 0 (None) or 1      *)
(* (Some(x)); Result<T, E> values as records with an `ok` field.           *)
(***************************************************************************)
EXTENDS Naturals, Integers, Sequences, FiniteSets, TLC

VARIABLES
    tools,      \* KeyPinStore.tools : composite key -> PinnedTool
    clock,      \* the latest reading of Utc::now()
    calls,      \* number of operations called so far
    call,       \* the operation that has just returned, with its arguments
    pre_tools,  \* KeyPinStore.tools as it was when that operation was called
    result      \* what that operation returned

vars == <<tools, clock, calls, call, pre_tools, result>>

-----------------------------------------------------------------------------
(* Bounds *)

\* Utc::now() readings range over 0..MaxClock
MaxClock == 1

\* operations called on one pin store in one run
MaxCalls == 3

-----------------------------------------------------------------------------
(* Option helpers *)

NoneV == <<>>
Some(x) == <<x>>
IsSome(o) == Len(o) = 1
IsNone(o) == Len(o) = 0

-----------------------------------------------------------------------------
(* Input universes *)

\* tool ids and domains are free-form strings; '@' may occur in either
ToolIds == {"a", "a@b"}
Domains == {"c", "b@c"}

\* the (tool_id, domain) pairs the operations are called with: two of them
\* differ in both parts and are written the same as tool_id@domain
Pairs == {<<"a", "c">>, <<"a", "b@c">>, <<"a@b", "c">>}

\* ECDSA P-256 key pairs, named by their public point
KeyIds == {"k1", "k2"}

\* a wall clock that can be set back between calls
Readings_SetBack(from) == 0..MaxClock

\* Utc::now(): the wall clock read by one call; it never runs backwards here
Readings(from) == from..MaxClock

\* the readings of a call that reads the clock only on some of its paths
ReadingsIf(reads, from) == IF reads THEN Readings(from) ELSE {from}

-----------------------------------------------------------------------------
(* crypto.rs *)

PemHeader == "-----BEGIN PUBLIC KEY-----"
PemFooter == "-----END PUBLIC KEY-----"

\* PEM text as its sequence of lines
to_public_key_pem(k) == <<PemHeader, k, PemFooter>>

\* PublicKey::from_public_key_pem: Some(key) or None on a parse error
from_public_key_pem(pem) ==
    IF Len(pem) = 3 /\ pem[1] = PemHeader /\ pem[3] = PemFooter /\ pem[2] \in KeyIds
    THEN Some(pem[2])
    ELSE NoneV

\* SHA-256 of the DER bytes of a key, hex encoded (collision-free)
Sha256Hex(k) == "h(" \o k \o ")"

calculate_key_id(public_key_pem) ==
    LET public_key == from_public_key_pem(public_key_pem)
    IN  IF IsNone(public_key)
        THEN [ok |-> FALSE, val |-> "Spki"]
        ELSE [ok |-> TRUE, val |-> "sha256:" \o Sha256Hex(public_key[1])]

Fingerprints == {calculate_key_id(to_public_key_pem(k)).val : k \in KeyIds}

\* sign_data: base64 of the DER signature of `data` under the private key of k
sign_data(k, data) ==
    [base64 |-> TRUE, der |-> TRUE, signer |-> Some(k), signed |-> Some(data)]

\* a base64 string that is no DER signature
NotDer == [base64 |-> TRUE, der |-> FALSE, signer |-> NoneV, signed |-> NoneV]

\* a string that is not base64
NotBase64 == [base64 |-> FALSE, der |-> FALSE, signer |-> NoneV, signed |-> NoneV]

\* verify_signature that reports every malformed input as InvalidKeyFormat
verify_signature_OneError(public_key_pem, data, signature) ==
    LET public_key == from_public_key_pem(public_key_pem)
    IN  IF IsNone(public_key) \/ ~signature.base64 \/ ~signature.der
        THEN [ok |-> FALSE, val |-> "InvalidKeyFormat"]
        ELSE [ok |-> TRUE,
              val |-> (signature.signer = public_key /\ signature.signed = Some(data))]

\* verify_signature that passes on the error of a signature that does not verify
verify_signature_ErrOnMismatch(public_key_pem, data, signature) ==
    LET public_key == from_public_key_pem(public_key_pem)
    IN  IF IsNone(public_key) THEN [ok |-> FALSE, val |-> "Spki"]
        ELSE IF ~signature.base64 THEN [ok |-> FALSE, val |-> "Base64"]
        ELSE IF ~signature.der THEN [ok |-> FALSE, val |-> "InvalidKeyFormat"]
        ELSE IF signature.signer = public_key /\ signature.signed = Some(data)
        THEN [ok |-> TRUE, val |-> TRUE]
        ELSE [ok |-> FALSE, val |-> "Signature"]

\* verify_signature that accepts a signature made with any key
verify_signature_AnyKey(public_key_pem, data, signature) ==
    LET public_key == from_public_key_pem(public_key_pem)
    IN  IF IsNone(public_key) THEN [ok |-> FALSE, val |-> "Spki"]
        ELSE IF ~signature.base64 THEN [ok |-> FALSE, val |-> "Base64"]
        ELSE IF ~signature.der THEN [ok |-> FALSE, val |-> "InvalidKeyFormat"]
        ELSE [ok |-> TRUE, val |-> signature.signed = Some(data)]

\* verify_signature: Ok(bool), or Err on an unusable key or signature
verify_signature(public_key_pem, data, signature) ==
    LET public_key == from_public_key_pem(public_key_pem)
    IN  IF IsNone(public_key) THEN [ok |-> FALSE, val |-> "Spki"]
        ELSE IF ~signature.base64 THEN [ok |-> FALSE, val |-> "Base64"]
        ELSE IF ~signature.der THEN [ok |-> FALSE, val |-> "InvalidKeyFormat"]
        ELSE [ok |-> TRUE,
              val |-> (signature.signer = public_key /\ signature.signed = Some(data))]

-----------------------------------------------------------------------------
(* canonicalize.rs *)

\* A JSON value is a string [t |-> "str"], a number [t |-> "num"], an array
\* [t |-> "arr"] of values or an object [t |-> "obj"]: a sequence of
\* <<key, value>> members with pairwise different keys, in the order the map
\* iterates them.  Strings, keys and JSON texts are sequences of code points.
\* Numbers are the non-negative integers: how serde_json writes and reads the
\* other numbers is decided by the library and its features, not by these sources.
JStr(s) == [t |-> "str", v |-> s]
JNum(n) == [t |-> "num", v |-> n]
JArr(items) == [t |-> "arr", v |-> items]
JObj(members) == [t |-> "obj", v |-> members]

\* the order of String: code point by code point, a proper prefix first
RECURSIVE KeyLess(_, _)
KeyLess(a, b) ==
    IF Len(b) = 0 THEN FALSE
    ELSE IF Len(a) = 0 THEN TRUE
    ELSE IF a[1] # b[1] THEN a[1] < b[1]
    ELSE KeyLess(Tail(a), Tail(b))

\* the members of an object in ascending key order (BTreeMap iteration)
RECURSIVE SortMembers(_)
SortMembers(members) ==
    IF Len(members) = 0 THEN <<>>
    ELSE LET i == CHOOSE i \in 1..Len(members) :
                    \A j \in 1..Len(members) :
                        j # i => KeyLess(members[i][1], members[j][1])
             others == SubSeq(members, 1, i - 1) \o SubSeq(members, i + 1, Len(members))
         IN  <<members[i]>> \o SortMembers(others)

RECURSIVE sort_keys_recursive(_)
\* sort_keys_recursive that sorts the object it is given and not the values in it
sort_keys_recursive_TopLevel(value) ==
    IF value.t = "obj" THEN JObj(SortMembers(value.v)) ELSE value

sort_keys_recursive(value) ==
    IF value.t = "obj"
    THEN JObj(SortMembers([i \in 1..Len(value.v) |->
                <<value.v[i][1], sort_keys_recursive(value.v[i][2])>>]))
    ELSE IF value.t = "arr"
    THEN JArr([i \in 1..Len(value.v) |-> sort_keys_recursive(value.v[i])])
    ELSE value

\* serde_json writes '"' as \" , '\' as \\ and a line feed as \n
EscapeChar(c) ==
    IF c = 34 \/ c = 92 THEN <<92, c>>
    ELSE IF c = 10 THEN <<92, 110>>
    ELSE <<c>>

RECURSIVE Escaped(_)
Escaped(s) == IF Len(s) = 0 THEN <<>> ELSE EscapeChar(s[1]) \o Escaped(Tail(s))

\* a string between quotes
JsonString(s) == <<34>> \o Escaped(s) \o <<34>>

\* the decimal digits of a number
RECURSIVE Digits(_)
Digits(n) == IF n < 10 THEN <<48 + n>> ELSE Digits(n \div 10) \o <<48 + (n % 10)>>

\* serde_json::to_string: the compact text of a value, its arrays and objects
\* written in iteration order
RECURSIVE to_string(_)
RECURSIVE WriteItems(_, _)
WriteItems(items, i) ==
    IF i > Len(items) THEN <<>>
    ELSE (IF i > 1 THEN <<44>> ELSE <<>>) \o to_string(items[i])
         \o WriteItems(items, i + 1)

RECURSIVE WriteMembers(_, _)
WriteMembers(members, i) ==
    IF i > Len(members) THEN <<>>
    ELSE (IF i > 1 THEN <<44>> ELSE <<>>) \o JsonString(members[i][1]) \o <<58>>
         \o to_string(members[i][2]) \o WriteMembers(members, i + 1)

to_string(value) ==
    IF value.t = "obj" THEN <<123>> \o WriteMembers(value.v, 1) \o <<125>>
    ELSE IF value.t = "arr" THEN <<91>> \o WriteItems(value.v, 1) \o <<93>>
    ELSE IF value.t = "str" THEN JsonString(value.v)
    ELSE Digits(value.v)

\* canonicalize_schema: the compact text of the value with its keys sorted
canonicalize_schema(schema) == to_string(sort_keys_recursive(schema))

\* the character an escape \e stands for, read as it is
Unescape_Literal(e) == e

\* the character an escape \e stands for
Unescape(e) == IF e = 110 THEN 10 ELSE e

\* the string that ends at the next quote that is not escaped; text[pos] is
\* the character after the opening quote
RECURSIVE ParseString(_, _, _)
ParseString(text, pos, acc) ==
    IF text[pos] = 34 THEN [val |-> acc, pos |-> pos + 1]
    ELSE IF text[pos] = 92
    THEN ParseString(text, pos + 2, Append(acc, Unescape(text[pos + 1])))
    ELSE ParseString(text, pos + 1, Append(acc, text[pos]))

\* the number whose digits start at text[pos]
RECURSIVE ParseNumber(_, _, _)
ParseNumber(text, pos, acc) ==
    IF pos <= Len(text) /\ text[pos] \in 48..57
    THEN ParseNumber(text, pos + 1, 10 * acc + (text[pos] - 48))
    ELSE [val |-> acc, pos |-> pos]

\* Map::insert: the value of a key the map has is replaced where it is, a new
\* key goes last
Insert(members, key, value) ==
    IF \E i \in 1..Len(members) : members[i][1] = key
    THEN [i \in 1..Len(members) |->
            IF members[i][1] = key THEN <<key, value>> ELSE members[i]]
    ELSE Append(members, <<key, value>>)

\* the value that starts at text[pos] and the position after it, for a text
\* that to_string wrote
RECURSIVE ParseValue(_, _)
RECURSIVE ParseItems(_, _, _)
ParseItems(text, pos, acc) ==
    IF text[pos] = 93 THEN [val |-> JArr(acc), pos |-> pos + 1]
    ELSE LET item == ParseValue(text, pos)
         IN  IF text[item.pos] = 44
             THEN ParseItems(text, item.pos + 1, Append(acc, item.val))
             ELSE [val |-> JArr(Append(acc, item.val)), pos |-> item.pos + 1]

RECURSIVE ParseMembers(_, _, _)
ParseMembers(text, pos, acc) ==
    IF text[pos] = 125 THEN [val |-> JObj(acc), pos |-> pos + 1]
    ELSE LET key == ParseString(text, pos + 1, <<>>)
             value == ParseValue(text, key.pos + 1)
             members == Insert(acc, key.val, value.val)
         IN  IF text[value.pos] = 44
             THEN ParseMembers(text, value.pos + 1, members)
             ELSE [val |-> JObj(members), pos |-> value.pos + 1]

ParseValue(text, pos) ==
    IF text[pos] = 123 THEN ParseMembers(text, pos + 1, <<>>)
    ELSE IF text[pos] = 91 THEN ParseItems(text, pos + 1, <<>>)
    ELSE IF text[pos] = 34
    THEN LET s == ParseString(text, pos + 1, <<>>)
         IN  [val |-> JStr(s.val), pos |-> s.pos]
    ELSE LET n == ParseNumber(text, pos, 0)
         IN  [val |-> JNum(n.val), pos |-> n.pos]

\* serde_json::from_str of a text that to_string wrote
from_str(text) == ParseValue(text, 1).val

\* SHA-256 of the canonical string (collision-free)
hash_canonical(canonical) == [sha256 |-> canonical]

canonicalize_and_hash(schema) == hash_canonical(canonicalize_schema(schema))

-----------------------------------------------------------------------------
(* discovery.rs, revocation.rs *)

\* Ok(()) or Err(Error::Discovery)
validate_well_known_response(response) ==
    IF Len(response.public_key_pem) = 0 THEN [ok |-> FALSE, val |-> "Discovery"]
    ELSE IF ~\E i \in 1..Len(response.public_key_pem) :
                response.public_key_pem[i] = PemHeader
    THEN [ok |-> FALSE, val |-> "Discovery"]
    ELSE IF response.schema_version = "" THEN [ok |-> FALSE, val |-> "Discovery"]
    ELSE [ok |-> TRUE, val |-> "unit"]
\* check_revocation that looks at the first revoked key only
check_revocation_FirstOnly(doc, fingerprint) ==
    IF Len(doc.revoked_keys) > 0 /\ doc.revoked_keys[1].fingerprint = fingerprint
    THEN [ok |-> FALSE, val |-> "KEY_REVOKED"]
    ELSE [ok |-> TRUE, val |-> "unit"]

\* check_revocation that finds no key of the document revoked
check_revocation_Skipped(doc, fingerprint) == [ok |-> TRUE, val |-> "unit"]

\* Ok(()) or Err(Error::Verification { code: KeyRevoked })
check_revocation(doc, fingerprint) ==
    IF \E i \in 1..Len(doc.revoked_keys) : doc.revoked_keys[i].fingerprint = fingerprint
    THEN [ok |-> FALSE, val |-> "KEY_REVOKED"]
    ELSE [ok |-> TRUE, val |-> "unit"]
\* check_revocation_combined that consults only the revocation document
check_revocation_combined_DocOnly(simple_revoked, revocation_doc, fingerprint) ==
    IF IsSome(revocation_doc)
    THEN check_revocation(revocation_doc[1], fingerprint)
    ELSE [ok |-> TRUE, val |-> "unit"]


check_revocation_combined(simple_revoked, revocation_doc, fingerprint) ==
    IF \E i \in 1..Len(simple_revoked) : simple_revoked[i] = fingerprint
    THEN [ok |-> FALSE, val |-> "KEY_REVOKED"]
    ELSE IF IsSome(revocation_doc)
    THEN check_revocation(revocation_doc[1], fingerprint)
    ELSE [ok |-> TRUE, val |-> "unit"]

-----------------------------------------------------------------------------
(* pinning.rs *)

composite_key(tool_id, domain) == tool_id \o "@" \o domain
\* FindKey that compares the first pinned key only
FindKey_FirstOnly(pinned_keys, fingerprint) ==
    IF Len(pinned_keys) > 0 /\ pinned_keys[1].fingerprint = fingerprint THEN 1 ELSE 0

\* index of the first pinned key with the fingerprint, 0 if there is none
FindKey(pinned_keys, fingerprint) ==
    IF \E i \in 1..Len(pinned_keys) : pinned_keys[i].fingerprint = fingerprint
    THEN CHOOSE i \in 1..Len(pinned_keys) :
            /\ pinned_keys[i].fingerprint = fingerprint
            /\ \A j \in 1..(i - 1) : pinned_keys[j].fingerprint # fingerprint
    ELSE 0

\* a pinned key at trust level verified
NewPinnedKey_Verified(fingerprint, now) ==
    [fingerprint |-> fingerprint, first_seen |-> now, last_seen |-> now,
     trust_level |-> "Verified"]

\* PinnedKey at trust level tofu, seen first and last at one reading of the clock
NewPinnedKey(fingerprint, now) ==
    [fingerprint |-> fingerprint, first_seen |-> now, last_seen |-> now,
     trust_level |-> "Tofu"]
\* check_and_pin that reports FirstUse without inserting the record
check_and_pin_NoRecord(store, tool_id, domain, fingerprint, now) ==
    LET key == composite_key(tool_id, domain)
    IN  IF key \in DOMAIN store
        THEN LET i == FindKey(store[key].pinned_keys, fingerprint)
             IN  IF i # 0
                 THEN [res |-> "Matched",
                       store |-> [store EXCEPT ![key].pinned_keys[i].last_seen = now]]
                 ELSE [res |-> "Changed", store |-> store]
        ELSE [res |-> "FirstUse", store |-> store]

\* check_and_pin that pins the new key in place of the old ones on Changed
check_and_pin_Repins(store, tool_id, domain, fingerprint, now) ==
    LET key == composite_key(tool_id, domain)
    IN  IF key \in DOMAIN store
        THEN LET i == FindKey(store[key].pinned_keys, fingerprint)
             IN  IF i # 0
                 THEN [res |-> "Matched",
                       store |-> [store EXCEPT ![key].pinned_keys[i].last_seen = now]]
                 ELSE [res |-> "Changed",
                       store |-> [store EXCEPT ![key].pinned_keys =
                                    <<NewPinnedKey(fingerprint, now)>>]]
        ELSE [res |-> "FirstUse",
              store |-> (key :> [tool_id |-> tool_id, domain |-> domain,
                                 pinned_keys |-> <<NewPinnedKey(fingerprint, now)>>])
                        @@ store]

\* check_and_pin that pins the new key next to the old ones on Changed
check_and_pin_Appends(store, tool_id, domain, fingerprint, now) ==
    LET key == composite_key(tool_id, domain)
    IN  IF key \in DOMAIN store
        THEN LET i == FindKey(store[key].pinned_keys, fingerprint)
             IN  IF i # 0
                 THEN [res |-> "Matched",
                       store |-> [store EXCEPT ![key].pinned_keys[i].last_seen = now]]
                 ELSE [res |-> "Changed",
                       store |-> [store EXCEPT ![key].pinned_keys =
                                    Append(@, NewPinnedKey(fingerprint, now))]]
        ELSE [res |-> "FirstUse",
              store |-> (key :> [tool_id |-> tool_id, domain |-> domain,
                                 pinned_keys |-> <<NewPinnedKey(fingerprint, now)>>])
                        @@ store]

\* check_and_pin that matches a pinned key only when it was last seen at the
\* present reading of the clock
check_and_pin_Expires(store, tool_id, domain, fingerprint, now) ==
    LET key == composite_key(tool_id, domain)
    IN  IF key \in DOMAIN store
        THEN LET i == FindKey(store[key].pinned_keys, fingerprint)
             IN  IF i # 0 /\ store[key].pinned_keys[i].last_seen >= now
                 THEN [res |-> "Matched",
                       store |-> [store EXCEPT ![key].pinned_keys[i].last_seen = now]]
                 ELSE [res |-> "Changed", store |-> store]
        ELSE [res |-> "FirstUse",
              store |-> (key :> [tool_id |-> tool_id, domain |-> domain,
                                 pinned_keys |-> <<NewPinnedKey(fingerprint, now)>>])
                        @@ store]

\* check_and_pin: the pinning result and the store after the call
check_and_pin(store, tool_id, domain, fingerprint, now) ==
    LET key == composite_key(tool_id, domain)
    IN  IF key \in DOMAIN store
        THEN LET i == FindKey(store[key].pinned_keys, fingerprint)
             IN  IF i # 0
                 THEN [res |-> "Matched",
                       store |-> [store EXCEPT ![key].pinned_keys[i].last_seen = now]]
                 ELSE [res |-> "Changed", store |-> store]
        ELSE [res |-> "FirstUse",
              store |-> (key :> [tool_id |-> tool_id, domain |-> domain,
                                 pinned_keys |-> <<NewPinnedKey(fingerprint, now)>>])
                        @@ store]

\* add_key that pushes a key only onto a record that existed before the call
add_key_EmptyRecord(store, tool_id, domain, fingerprint, now) ==
    LET key == composite_key(tool_id, domain)
    IN  IF key \in DOMAIN store
        THEN IF FindKey(store[key].pinned_keys, fingerprint) = 0
             THEN [store EXCEPT ![key].pinned_keys =
                        Append(@, NewPinnedKey(fingerprint, now))]
             ELSE store
        ELSE (key :> [tool_id |-> tool_id, domain |-> domain, pinned_keys |-> <<>>])
             @@ store

\* add_key that pushes the key without looking for its fingerprint
add_key_AlwaysPushes(store, tool_id, domain, fingerprint, now) ==
    LET key == composite_key(tool_id, domain)
        entry == IF key \in DOMAIN store
                 THEN store[key]
                 ELSE [tool_id |-> tool_id, domain |-> domain, pinned_keys |-> <<>>]
    IN  (key :> [entry EXCEPT !.pinned_keys =
                    Append(@, NewPinnedKey(fingerprint, now))]) @@ store

\* add_key that pins the new key in place of the keys of the record
add_key_Replaces(store, tool_id, domain, fingerprint, now) ==
    LET key == composite_key(tool_id, domain)
        entry == IF key \in DOMAIN store
                 THEN store[key]
                 ELSE [tool_id |-> tool_id, domain |-> domain, pinned_keys |-> <<>>]
        pinned == IF FindKey(entry.pinned_keys, fingerprint) = 0
                  THEN [entry EXCEPT !.pinned_keys = <<NewPinnedKey(fingerprint, now)>>]
                  ELSE entry
    IN  (key :> pinned) @@ store

\* add_key: the store after the call
add_key(store, tool_id, domain, fingerprint, now) ==
    LET key == composite_key(tool_id, domain)
        entry == IF key \in DOMAIN store
                 THEN store[key]
                 ELSE [tool_id |-> tool_id, domain |-> domain, pinned_keys |-> <<>>]
        pinned == IF FindKey(entry.pinned_keys, fingerprint) = 0
                  THEN [entry EXCEPT !.pinned_keys =
                            Append(@, NewPinnedKey(fingerprint, now))]
                  ELSE entry
    IN  (key :> pinned) @@ store

get_tool(store, tool_id, domain) ==
    LET key == composite_key(tool_id, domain)
    IN  IF key \in DOMAIN store THEN Some(store[key]) ELSE NoneV
\* check_pinning that lets a changed key through
check_pinning_AcceptsChange(store, tool_id, domain, fingerprint, now) ==
    LET r == check_and_pin(store, tool_id, domain, fingerprint, now)
    IN  [ok |-> TRUE, val |-> IF r.res = "Changed" THEN "Matched" ELSE r.res,
         store |-> r.store]

\* check_pinning that pins the changed key before it rejects it
check_pinning_PinsRejected(store, tool_id, domain, fingerprint, now) ==
    LET r == check_and_pin(store, tool_id, domain, fingerprint, now)
    IN  IF r.res = "Changed"
        THEN [ok |-> FALSE, val |-> "KEY_PIN_MISMATCH",
              store |-> add_key(r.store, tool_id, domain, fingerprint, now)]
        ELSE [ok |-> TRUE, val |-> r.res, store |-> r.store]

\* check_pinning: Err(KeyPinMismatch) on Changed, Ok(result) otherwise
check_pinning(store, tool_id, domain, fingerprint, now) ==
    LET r == check_and_pin(store, tool_id, domain, fingerprint, now)
    IN  IF r.res = "Changed"
        THEN [ok |-> FALSE, val |-> "KEY_PIN_MISMATCH", store |-> r.store]
        ELSE [ok |-> TRUE, val |-> r.res, store |-> r.store]

\* serde names of TrustLevel (rename_all = "lowercase")
TrustLevelJson == [Tofu |-> "tofu", Verified |-> "verified", Pinned |-> "pinned"]

TrustLevelFromJson(name) ==
    CHOOSE level \in DOMAIN TrustLevelJson : TrustLevelJson[level] = name

PinnedToolToJson(t) ==
    [tool_id |-> t.tool_id, domain |-> t.domain,
     pinned_keys |-> [i \in 1..Len(t.pinned_keys) |->
        [t.pinned_keys[i] EXCEPT !.trust_level = TrustLevelJson[@]]]]

PinnedToolFromJson(j) ==
    [tool_id |-> j.tool_id, domain |-> j.domain,
     pinned_keys |-> [i \in 1..Len(j.pinned_keys) |->
        [j.pinned_keys[i] EXCEPT !.trust_level = TrustLevelFromJson(@)]]]

\* the orders in which HashMap::values may iterate the store
ValueOrders(store) ==
    {order \in [1..Cardinality(DOMAIN store) -> DOMAIN store] :
        \A i, j \in DOMAIN order : order[i] = order[j] => i = j}

\* to_json: the JSON array of the records, in the iteration order `order`
to_json(store, order) == [i \in 1..Len(order) |-> PinnedToolToJson(store[order[i]])]

RECURSIVE CollectTools(_, _)
CollectTools(records, map) ==
    IF Len(records) = 0 THEN map
    ELSE LET t == PinnedToolFromJson(Head(records))
         IN  CollectTools(Tail(records),
                          (composite_key(t.tool_id, t.domain) :> t) @@ map)
\* from_json that keys each record by its tool_id alone
from_json_ByToolId(json) ==
    [key \in {json[i].tool_id : i \in 1..Len(json)} |->
        PinnedToolFromJson(json[CHOOSE i \in 1..Len(json) : json[i].tool_id = key])]

\* from_json: the store rebuilt from a JSON array, keys re-derived
from_json(json) == CollectTools(json, << >>)

-----------------------------------------------------------------------------
(* resolver.rs *)

\* TrustBundleResolver::new: the last document of a domain wins in the maps
RECURSIVE BundleMap(_, _)
BundleMap(docs, map) ==
    IF Len(docs) = 0 THEN map
    ELSE BundleMap(Tail(docs), (Head(docs).domain :> Head(docs)) @@ map)

\* SchemaPinTrustBundle::find_discovery: the first document of the domain
find_discovery(bundle, domain) ==
    LET documents == bundle.documents
    IN  IF \E i \in 1..Len(documents) : documents[i].domain = domain
        THEN Some(documents[CHOOSE i \in 1..Len(documents) :
                                /\ documents[i].domain = domain
                                /\ \A j \in 1..(i - 1) : documents[j].domain # domain])
        ELSE NoneV

TrustBundleResolver(bundle) ==
    [kind |-> "bundle",
     discovery |-> BundleMap(bundle.documents, << >>),
     revocations |-> BundleMap(bundle.revocations, << >>)]

\* LocalFileResolver: the files it finds, by domain; a file holds Some(doc)
\* when it parses and None when it does not
LocalFileResolver(discovery_files, revocation_files) ==
    [kind |-> "local", discovery |-> discovery_files,
     revocations |-> revocation_files]

ChainResolver(resolvers) == [kind |-> "chain", resolvers |-> resolvers]

\* resolve_discovery: Ok(document) or Err(error); `tried` lists the members a
\* chain consulted, in the order it consulted them
RECURSIVE resolve_discovery(_, _)
RECURSIVE ChainResolveDiscovery(_, _, _, _, _)

\* the loop that gives up at the first member that fails
ChainResolveDiscovery_NoFallthrough(resolvers, domain, i, last_err, tried) ==
    IF i > Len(resolvers)
    THEN [ok |-> FALSE, val |-> last_err, tried |-> tried]
    ELSE LET r == resolve_discovery(resolvers[i], domain)
         IN  [ok |-> r.ok, val |-> r.val, tried |-> Append(tried, i)]

\* the loop of ChainResolver::resolve_discovery from member i on
ChainResolveDiscovery(resolvers, domain, i, last_err, tried) ==
    IF i > Len(resolvers)
    THEN [ok |-> FALSE, val |-> last_err, tried |-> tried]
    ELSE LET r == resolve_discovery(resolvers[i], domain)
         IN  IF r.ok
             THEN [ok |-> TRUE, val |-> r.val, tried |-> Append(tried, i)]
             ELSE ChainResolveDiscovery(resolvers, domain, i + 1, r.val,
                                        Append(tried, i))

resolve_discovery(resolver, domain) ==
    IF resolver.kind = "bundle"
    THEN IF domain \in DOMAIN resolver.discovery
         THEN [ok |-> TRUE, val |-> resolver.discovery[domain].well_known,
               tried |-> <<>>]
         ELSE [ok |-> FALSE, val |-> "Discovery: not in trust bundle", tried |-> <<>>]
    ELSE IF resolver.kind = "local"
    THEN IF domain \notin DOMAIN resolver.discovery
         THEN [ok |-> FALSE, val |-> "Discovery: cannot read", tried |-> <<>>]
         ELSE IF IsNone(resolver.discovery[domain])
         THEN [ok |-> FALSE, val |-> "Json", tried |-> <<>>]
         ELSE [ok |-> TRUE, val |-> resolver.discovery[domain][1], tried |-> <<>>]
    ELSE ChainResolveDiscovery(resolver.resolvers, domain, 1,
                               "Discovery: No resolvers configured", <<>>)

\* resolve_revocation: Ok(Option<document>) or Err(error)
RECURSIVE resolve_revocation(_, _, _)
RECURSIVE ChainResolveRevocation(_, _, _, _, _)

\* the loop that returns the error of a member that fails
ChainResolveRevocation_Propagates(resolvers, domain, discovery, i, tried) ==
    IF i > Len(resolvers)
    THEN [ok |-> TRUE, val |-> NoneV, tried |-> tried]
    ELSE LET r == resolve_revocation(resolvers[i], domain, discovery)
         IN  IF ~r.ok \/ IsSome(r.val)
             THEN [ok |-> r.ok, val |-> r.val, tried |-> Append(tried, i)]
             ELSE ChainResolveRevocation(resolvers, domain, discovery, i + 1,
                                         Append(tried, i))

\* the loop of ChainResolver::resolve_revocation from member i on
ChainResolveRevocation(resolvers, domain, discovery, i, tried) ==
    IF i > Len(resolvers)
    THEN [ok |-> TRUE, val |-> NoneV, tried |-> tried]
    ELSE LET r == resolve_revocation(resolvers[i], domain, discovery)
         IN  IF r.ok /\ IsSome(r.val)
             THEN [ok |-> TRUE, val |-> r.val, tried |-> Append(tried, i)]
             ELSE ChainResolveRevocation(resolvers, domain, discovery, i + 1,
                                         Append(tried, i))

resolve_revocation(resolver, domain, discovery) ==
    IF resolver.kind = "bundle"
    THEN [ok |-> TRUE,
          val |-> IF domain \in DOMAIN resolver.revocations
                  THEN Some(resolver.revocations[domain])
                  ELSE NoneV,
          tried |-> <<>>]
    ELSE IF resolver.kind = "local"
    THEN IF domain \notin DOMAIN resolver.revocations
         THEN [ok |-> TRUE, val |-> NoneV, tried |-> <<>>]
         ELSE IF IsNone(resolver.revocations[domain])
         THEN [ok |-> FALSE, val |-> "Json", tried |-> <<>>]
         ELSE [ok |-> TRUE, val |-> Some(resolver.revocations[domain][1]),
               tried |-> <<>>]
    ELSE ChainResolveRevocation(resolver.resolvers, domain, discovery, 1, <<>>)

-----------------------------------------------------------------------------
(* verification.rs *)

ErrorCodes ==
    {"SIGNATURE_INVALID", "KEY_NOT_FOUND", "KEY_REVOKED", "KEY_PIN_MISMATCH",
     "DISCOVERY_FETCH_FAILED", "DISCOVERY_INVALID", "DOMAIN_MISMATCH",
     "SCHEMA_CANONICALIZATION_FAILED"}

\* success that leaves key_pinning out
success_NoPinning(domain, developer_name, pin_status) ==
    [kind |-> "verification", valid |-> TRUE, domain |-> Some(domain),
     developer_name |-> developer_name, key_pinning |-> NoneV,
     error_code |-> NoneV, warnings |-> <<>>]

\* VerificationResult::success (the text of error_message is not modelled)
success(domain, developer_name, pin_status) ==
    [kind |-> "verification", valid |-> TRUE, domain |-> Some(domain),
     developer_name |-> developer_name, key_pinning |-> Some(pin_status),
     error_code |-> NoneV, warnings |-> <<>>]

\* VerificationResult::failure
failure(code) ==
    [kind |-> "verification", valid |-> FALSE, domain |-> NoneV,
     developer_name |-> NoneV, key_pinning |-> NoneV,
     error_code |-> Some(code), warnings |-> <<>>]

\* Step 7 of verify_schema_offline: the KeyPinningStatus of a success
SchemaPinStatus(pin_result, pin_store, tool_id, domain, now) ==
    IF pin_result = "FirstUse"
    THEN [status |-> "first_use", first_seen |-> Some(now)]
    ELSE LET t == get_tool(pin_store, tool_id, domain)
         IN  [status |-> "pinned",
              first_seen |-> IF IsSome(t) /\ Len(t[1].pinned_keys) > 0
                             THEN Some(t[1].pinned_keys[1].first_seen)
                             ELSE NoneV]

\* verify_schema_offline: the result, the pin store and the clock after the
\* call.  now1 is the reading check_and_pin takes, now2 the one step 7 takes.
verify_schema_offline(schema, signature_b64, domain, tool_id, discovery, revocation, pin_store, now1, now2) ==
    LET fp == calculate_key_id(discovery.public_key_pem)
        pin == check_pinning(pin_store, tool_id, domain, fp.val, now1)
        schema_hash == canonicalize_and_hash(schema)
        valid == verify_signature(discovery.public_key_pem, schema_hash, signature_b64)
    IN  IF ~validate_well_known_response(discovery).ok
        THEN [result |-> failure("DISCOVERY_INVALID"), store |-> pin_store,
              read1 |-> FALSE, read2 |-> FALSE]
        ELSE IF ~fp.ok
        THEN [result |-> failure("KEY_NOT_FOUND"), store |-> pin_store,
              read1 |-> FALSE, read2 |-> FALSE]
        ELSE IF ~check_revocation_combined(discovery.revoked_keys, revocation, fp.val).ok
        THEN [result |->
                failure(check_revocation_combined(discovery.revoked_keys,
                                                  revocation, fp.val).val),
              store |-> pin_store, read1 |-> FALSE, read2 |-> FALSE]
        ELSE IF ~pin.ok
        THEN [result |-> failure("KEY_PIN_MISMATCH"), store |-> pin.store,
              read1 |-> TRUE, read2 |-> FALSE]
        ELSE IF ~valid.ok \/ ~valid.val
        THEN [result |-> failure("SIGNATURE_INVALID"), store |-> pin.store,
              read1 |-> TRUE, read2 |-> FALSE]
        ELSE [result |-> success(domain, discovery.developer_name,
                            SchemaPinStatus(pin.val, pin.store, tool_id, domain, now2)),
              store |-> pin.store,
              read1 |-> TRUE, read2 |-> pin.val = "FirstUse"]

\* verify_schema_with_resolver
\* verify_schema_with_resolver that goes on without a revocation document when
\* resolve_revocation fails
verify_schema_with_resolver_FailOpen(schema, signature_b64, domain, tool_id, resolver, pin_store, now1, now2) ==
    LET discovery == resolve_discovery(resolver, domain)
        revocation == resolve_revocation(resolver, domain, discovery.val)
    IN  IF ~discovery.ok
        THEN [result |-> failure("DISCOVERY_FETCH_FAILED"), store |-> pin_store,
              read1 |-> FALSE, read2 |-> FALSE]
        ELSE verify_schema_offline(schema, signature_b64, domain, tool_id,
                                   discovery.val,
                                   IF revocation.ok THEN revocation.val ELSE NoneV,
                                   pin_store, now1, now2)

verify_schema_with_resolver(schema, signature_b64, domain, tool_id, resolver, pin_store, now1, now2) ==
    LET discovery == resolve_discovery(resolver, domain)
        revocation == resolve_revocation(resolver, domain, discovery.val)
    IN  IF ~discovery.ok
        THEN [result |-> failure("DISCOVERY_FETCH_FAILED"), store |-> pin_store,
              read1 |-> FALSE, read2 |-> FALSE]
        ELSE IF ~revocation.ok
        THEN [result |-> failure("DISCOVERY_FETCH_FAILED"), store |-> pin_store,
              read1 |-> FALSE, read2 |-> FALSE]
        ELSE verify_schema_offline(schema, signature_b64, domain, tool_id,
                                   discovery.val, revocation.val, pin_store,
                                   now1, now2)

-----------------------------------------------------------------------------
(* skill.rs *)

\* A skill directory [entries, sig_file]: entries is what read_dir yields for
\* it, in the order read_dir yields it; sig_file is what load_signature reads
\* from its .schemapin.sig (None: missing or unparseable).  An entry is
\* [name, kind, link, bytes, entries]: kind is "file" or "dir", link says that
\* the entry is a symbolic link to such a file or directory, bytes are the
\* bytes of a file and entries the listing of a directory.  Names, paths and
\* file bytes are sequences of code points.
SigFileName == <<46, 115, 99, 104, 101, 109, 97, 112, 105, 110, 46, 115, 105, 103>>

File(name, bytes) ==
    [name |-> name, kind |-> "file", link |-> FALSE, bytes |-> bytes, entries |-> <<>>]

Directory(name, entries) ==
    [name |-> name, kind |-> "dir", link |-> FALSE, bytes |-> <<>>, entries |-> entries]

Symlink(entry) == [entry EXCEPT !.link = TRUE]

\* the directory with the entries and, if any, the file of the signature
SkillDir(entries, sig_file) ==
    [entries |-> IF IsSome(sig_file)
                 THEN Append(entries, File(SigFileName, <<115, 105, 103>>))
                 ELSE entries,
     sig_file |-> sig_file]

\* entries.sort_by_key(|e| e.file_name())
RECURSIVE SortedEntries(_)
SortedEntries(entries) ==
    IF Len(entries) = 0 THEN <<>>
    ELSE LET i == CHOOSE i \in 1..Len(entries) :
                    \A j \in 1..Len(entries) :
                        j # i => KeyLess(entries[i].name, entries[j].name)
             others == SubSeq(entries, 1, i - 1) \o SubSeq(entries, i + 1, Len(entries))
         IN  <<entries[i]>> \o SortedEntries(others)

\* the path of an entry relative to the skill directory, joined with '/'
RelPath(rel_dir, name) == IF rel_dir = <<>> THEN name ELSE rel_dir \o <<47>> \o name

\* hex SHA-256 of the path bytes followed by the file bytes: the hasher is
\* fed one after the other, so it hashes their concatenation (collision-free)
FileDigest(rel_str, file_bytes) == [sha256 |-> rel_str \o file_bytes]

\* manifest.insert on the BTreeMap, kept as <<path, digest>> in key order
ManifestInsert(manifest, rel_str, digest) == SortMembers(Insert(manifest, rel_str, digest))

\* the skip test that takes the metadata of what a link points to
Skipped_FollowsLinks(entry) == entry.kind = "file" /\ entry.name = SigFileName

\* the entries walk_sorted passes over: symbolic links, and files named
\* .schemapin.sig
Skipped(entry) == entry.link \/ (entry.kind = "file" /\ entry.name = SigFileName)

\* walk_sorted: the manifest after the walk of a directory
RECURSIVE walk_sorted(_, _, _)
RECURSIVE WalkEntries(_, _, _)
WalkEntries(rel_dir, entries, manifest) ==
    IF Len(entries) = 0 THEN manifest
    ELSE LET entry == Head(entries)
             rel_str == RelPath(rel_dir, entry.name)
             walked == IF Skipped(entry) THEN manifest
                       ELSE IF entry.kind = "dir"
                       THEN walk_sorted(rel_str, entry.entries, manifest)
                       ELSE ManifestInsert(manifest, rel_str,
                                           FileDigest(rel_str, entry.bytes))
         IN  WalkEntries(rel_dir, Tail(entries), walked)

walk_sorted(rel_dir, entries, manifest) ==
    WalkEntries(rel_dir, SortedEntries(entries), manifest)

\* the hex digests of the manifest in key order, joined: each is 64
\* characters, so the joined string is the sequence of them
JoinDigests(manifest) == [i \in 1..Len(manifest) |-> manifest[i][2]]

\* the walk that takes the entries as read_dir yields them and keeps the
\* manifest in the order of the walk
RECURSIVE ReadOrderWalk(_, _, _)
ReadOrderWalk(rel_dir, entries, manifest) ==
    IF Len(entries) = 0 THEN manifest
    ELSE LET entry == Head(entries)
             rel_str == RelPath(rel_dir, entry.name)
             walked == IF Skipped(entry) THEN manifest
                       ELSE IF entry.kind = "dir"
                       THEN ReadOrderWalk(rel_str, entry.entries, manifest)
                       ELSE Append(manifest, <<rel_str, FileDigest(rel_str, entry.bytes)>>)
         IN  ReadOrderWalk(rel_dir, Tail(entries), walked)

\* canonicalize_skill over the walk in read_dir order
canonicalize_skill_ReadOrder(skill_dir) ==
    LET manifest == ReadOrderWalk(<<>>, skill_dir.entries, <<>>)
    IN  IF Len(manifest) = 0
        THEN [ok |-> FALSE, val |-> "Io"]
        ELSE [ok |-> TRUE, root_hash |-> [sha256 |-> JoinDigests(manifest)],
              manifest |-> manifest]

\* canonicalize_skill that accepts a directory without files
canonicalize_skill_AllowsEmpty(skill_dir) ==
    LET manifest == walk_sorted(<<>>, skill_dir.entries, <<>>)
    IN  [ok |-> TRUE, root_hash |-> [sha256 |-> JoinDigests(manifest)],
         manifest |-> manifest]

\* canonicalize_skill: Ok(root_hash, manifest) or Err(Io)
canonicalize_skill(skill_dir) ==
    LET manifest == walk_sorted(<<>>, skill_dir.entries, <<>>)
    IN  IF Len(manifest) = 0
        THEN [ok |-> FALSE, val |-> "Io"]
        ELSE [ok |-> TRUE, root_hash |-> [sha256 |-> JoinDigests(manifest)],
              manifest |-> manifest]

\* load_signature: the parsed .schemapin.sig, or Err
load_signature(skill_dir) ==
    IF IsSome(skill_dir.sig_file)
    THEN [ok |-> TRUE, val |-> skill_dir.sig_file[1]]
    ELSE [ok |-> FALSE, val |-> "Io"]

\* sign_skill with an explicit skill_name and a derived signer_kid: the
\* document written to .schemapin.sig
sign_skill(skill_dir, k, domain, skill_name, now) ==
    LET c == canonicalize_skill(skill_dir)
    IN  [schemapin_version |-> "1.3",
         skill_name |-> skill_name,
         skill_hash |-> [sha256 |-> c.root_hash],
         signature |-> sign_data(k, c.root_hash),
         signed_at |-> now,
         domain |-> domain,
         signer_kid |-> calculate_key_id(to_public_key_pem(k)).val,
         file_manifest |-> c.manifest]

\* Step 7 of verify_skill_offline; pin_result is None without a pin store
SkillPinStatus(pin_result, pin_store, tool_id, domain, now) ==
    IF pin_result = Some("Matched")
    THEN LET t == get_tool(pin_store, tool_id, domain)
         IN  [status |-> "pinned",
              first_seen |-> IF IsSome(t) /\ Len(t[1].pinned_keys) > 0
                             THEN Some(t[1].pinned_keys[1].first_seen)
                             ELSE NoneV]
    ELSE [status |-> "first_use", first_seen |-> Some(now)]

\* verify_skill_offline that canonicalizes the directory before the pin gate
verify_skill_offline_CanonicalizesFirst(skill_dir, discovery, signature_data, revocation_doc, pin_store, tool_id, now1, now2) ==
    LET loaded == IF IsSome(signature_data)
                  THEN [ok |-> TRUE, val |-> signature_data[1]]
                  ELSE load_signature(skill_dir)
        sig == loaded.val
        fp == calculate_key_id(discovery.public_key_pem)
        effective_tool_id == IF IsSome(tool_id) THEN tool_id[1] ELSE sig.skill_name
        pin == check_pinning(pin_store[1], effective_tool_id, sig.domain, fp.val, now1)
        store1 == IF IsSome(pin_store) THEN Some(pin.store) ELSE NoneV
        pin_result == IF IsSome(pin_store) THEN Some(pin.val) ELSE NoneV
        canon == canonicalize_skill(skill_dir)
        valid == verify_signature(discovery.public_key_pem, canon.root_hash,
                                  sig.signature)
    IN  IF ~loaded.ok
        THEN [result |-> failure("SIGNATURE_INVALID"), store |-> pin_store,
              read1 |-> FALSE, read2 |-> FALSE,
              canonicalized |-> FALSE]
        ELSE IF ~validate_well_known_response(discovery).ok
        THEN [result |-> failure("DISCOVERY_INVALID"), store |-> pin_store,
              read1 |-> FALSE, read2 |-> FALSE,
              canonicalized |-> FALSE]
        ELSE IF ~fp.ok
        THEN [result |-> failure("KEY_NOT_FOUND"), store |-> pin_store,
              read1 |-> FALSE, read2 |-> FALSE,
              canonicalized |-> FALSE]
        ELSE IF ~check_revocation_combined(discovery.revoked_keys, revocation_doc,
                                           fp.val).ok
        THEN [result |->
                failure(check_revocation_combined(discovery.revoked_keys,
                                                  revocation_doc, fp.val).val),
              store |-> pin_store, read1 |-> FALSE, read2 |-> FALSE,
              canonicalized |-> FALSE]
        ELSE IF ~canon.ok
        THEN [result |-> failure("SCHEMA_CANONICALIZATION_FAILED"),
              store |-> pin_store, read1 |-> FALSE,
              read2 |-> FALSE,
              canonicalized |-> TRUE]
        ELSE IF IsSome(pin_store) /\ ~pin.ok
        THEN [result |-> failure("KEY_PIN_MISMATCH"), store |-> store1,
              read1 |-> IsSome(pin_store), read2 |-> FALSE,
              canonicalized |-> TRUE]
        ELSE IF ~valid.ok \/ ~valid.val
        THEN [result |-> failure("SIGNATURE_INVALID"), store |-> store1,
              read1 |-> IsSome(pin_store), read2 |-> FALSE,
              canonicalized |-> TRUE]
        ELSE [result |-> success(sig.domain, discovery.developer_name,
                            SkillPinStatus(pin_result, pin.store, effective_tool_id,
                                           sig.domain, now2)),
              store |-> store1,
              read1 |-> IsSome(pin_store), read2 |-> pin_result # Some("Matched"),
              canonicalized |-> TRUE]

\* verify_skill_offline.  pin_store is Some(store) or None; now1 is the
\* reading check_and_pin takes, now2 the one step 7 takes; canonicalized tells
\* whether the call came to canonicalize_skill.
verify_skill_offline(skill_dir, discovery, signature_data, revocation_doc, pin_store, tool_id, now1, now2) ==
    LET loaded == IF IsSome(signature_data)
                  THEN [ok |-> TRUE, val |-> signature_data[1]]
                  ELSE load_signature(skill_dir)
        sig == loaded.val
        fp == calculate_key_id(discovery.public_key_pem)
        effective_tool_id == IF IsSome(tool_id) THEN tool_id[1] ELSE sig.skill_name
        pin == check_pinning(pin_store[1], effective_tool_id, sig.domain, fp.val, now1)
        store1 == IF IsSome(pin_store) THEN Some(pin.store) ELSE NoneV
        pin_result == IF IsSome(pin_store) THEN Some(pin.val) ELSE NoneV
        canon == canonicalize_skill(skill_dir)
        valid == verify_signature(discovery.public_key_pem, canon.root_hash,
                                  sig.signature)
    IN  IF ~loaded.ok
        THEN [result |-> failure("SIGNATURE_INVALID"), store |-> pin_store,
              read1 |-> FALSE, read2 |-> FALSE,
              canonicalized |-> FALSE]
        ELSE IF ~validate_well_known_response(discovery).ok
        THEN [result |-> failure("DISCOVERY_INVALID"), store |-> pin_store,
              read1 |-> FALSE, read2 |-> FALSE,
              canonicalized |-> FALSE]
        ELSE IF ~fp.ok
        THEN [result |-> failure("KEY_NOT_FOUND"), store |-> pin_store,
              read1 |-> FALSE, read2 |-> FALSE,
              canonicalized |-> FALSE]
        ELSE IF ~check_revocation_combined(discovery.revoked_keys, revocation_doc,
                                           fp.val).ok
        THEN [result |->
                failure(check_revocation_combined(discovery.revoked_keys,
                                                  revocation_doc, fp.val).val),
              store |-> pin_store, read1 |-> FALSE, read2 |-> FALSE,
              canonicalized |-> FALSE]
        ELSE IF IsSome(pin_store) /\ ~pin.ok
        THEN [result |-> failure("KEY_PIN_MISMATCH"), store |-> store1,
              read1 |-> IsSome(pin_store), read2 |-> FALSE,
              canonicalized |-> FALSE]
        ELSE IF ~canon.ok
        THEN [result |-> failure("SCHEMA_CANONICALIZATION_FAILED"),
              store |-> store1, read1 |-> IsSome(pin_store),
              read2 |-> FALSE,
              canonicalized |-> TRUE]
        ELSE IF ~valid.ok \/ ~valid.val
        THEN [result |-> failure("SIGNATURE_INVALID"), store |-> store1,
              read1 |-> IsSome(pin_store), read2 |-> FALSE,
              canonicalized |-> TRUE]
        ELSE [result |-> success(sig.domain, discovery.developer_name,
                            SkillPinStatus(pin_result, pin.store, effective_tool_id,
                                           sig.domain, now2)),
              store |-> store1,
              read1 |-> IsSome(pin_store), read2 |-> pin_result # Some("Matched"),
              canonicalized |-> TRUE]

\* verify_skill_with_resolver
\* verify_skill_with_resolver that goes on without a revocation document when
\* resolve_revocation fails
verify_skill_with_resolver_FailOpen(skill_dir, domain, resolver, pin_store, tool_id, now1, now2) ==
    LET discovery == resolve_discovery(resolver, domain)
        revocation == resolve_revocation(resolver, domain, discovery.val)
    IN  IF ~discovery.ok
        THEN [result |-> failure("DISCOVERY_FETCH_FAILED"), store |-> pin_store,
              read1 |-> FALSE, read2 |-> FALSE,
              canonicalized |-> FALSE]
        ELSE verify_skill_offline(skill_dir, discovery.val, NoneV,
                                  IF revocation.ok THEN revocation.val ELSE NoneV,
                                  pin_store, tool_id, now1, now2)

verify_skill_with_resolver(skill_dir, domain, resolver, pin_store, tool_id, now1, now2) ==
    LET discovery == resolve_discovery(resolver, domain)
        revocation == resolve_revocation(resolver, domain, discovery.val)
    IN  IF ~discovery.ok
        THEN [result |-> failure("DISCOVERY_FETCH_FAILED"), store |-> pin_store,
              read1 |-> FALSE, read2 |-> FALSE,
              canonicalized |-> FALSE]
        ELSE IF ~revocation.ok
        THEN [result |-> failure("DISCOVERY_FETCH_FAILED"), store |-> pin_store,
              read1 |-> FALSE, read2 |-> FALSE,
              canonicalized |-> FALSE]
        ELSE verify_skill_offline(skill_dir, discovery.val, NoneV, revocation.val,
                                  pin_store, tool_id, now1, now2)

\* BTreeMap::get: Some(hash) or None
ManifestGet(manifest, path) ==
    IF \E i \in 1..Len(manifest) : manifest[i][1] = path
    THEN Some(manifest[CHOOSE i \in 1..Len(manifest) : manifest[i][1] = path][2])
    ELSE NoneV

\* TamperedFiles::default
NoTamperedFiles == [modified |-> <<>>, added |-> <<>>, removed |-> <<>>]

\* for (path, hash) in current
RECURSIVE CurrentLoop(_, _, _)
CurrentLoop(current, signed, files) ==
    IF current = <<>>
    THEN files
    ELSE LET path == Head(current)[1]
             hash == Head(current)[2]
             signed_hash == ManifestGet(signed, path)
         IN  CurrentLoop(Tail(current), signed,
                IF IsSome(signed_hash) /\ signed_hash[1] # hash
                THEN [files EXCEPT !.modified = Append(@, path)]
                ELSE IF IsNone(signed_hash)
                THEN [files EXCEPT !.added = Append(@, path)]
                ELSE files)

\* for path in signed.keys()
RECURSIVE SignedLoop(_, _, _)
SignedLoop(signed, current, files) ==
    IF signed = <<>>
    THEN files
    ELSE LET path == Head(signed)[1]
         IN  SignedLoop(Tail(signed), current,
                IF IsNone(ManifestGet(current, path))
                THEN [files EXCEPT !.removed = Append(@, path)]
                ELSE files)

\* detect_tampered_files that does not look for the files that are gone
detect_tampered_files_NoRemoved(current, signed) ==
    CurrentLoop(current, signed, NoTamperedFiles)

\* detect_tampered_files
detect_tampered_files(current, signed) ==
    SignedLoop(signed, current, CurrentLoop(current, signed, NoTamperedFiles))

-----------------------------------------------------------------------------
(* The documents and artifacts the operations are called with *)

Pem(k) == to_public_key_pem(k)
Fp(k) == calculate_key_id(Pem(k)).val

\* public_key_pem texts without a PEM header, and with a header around bytes
\* that are no key
BadPems == {<<"garbage">>, <<PemHeader, "garbage", PemFooter>>}

WellKnown(schema_version, public_key_pem, revoked_keys) ==
    [schema_version |-> schema_version, developer_name |-> Some("Test Developer"),
     public_key_pem |-> public_key_pem, revoked_keys |-> revoked_keys]

GoodDiscovery(k) == WellKnown("1.2", Pem(k), <<>>)

\* discovery documents: of either key; of k2 listing k2 itself as revoked, with
\* and without a schema version; of k1 listing k2; and with unusable key texts
WellKnownResponses ==
    {GoodDiscovery(k) : k \in KeyIds}
    \cup {WellKnown(version, Pem("k2"), <<Fp("k2")>>) : version \in {"", "1.2"}}
    \cup {WellKnown("1.2", Pem("k1"), <<Fp("k2")>>)}
    \cup {WellKnown("1.2", pem, <<>>) : pem \in BadPems}

RevocationDocument(domain, fingerprints) ==
    [schemapin_version |-> "1.2", domain |-> domain,
     revoked_keys |-> [i \in 1..Len(fingerprints) |->
        [fingerprint |-> fingerprints[i], reason |-> "key_compromise"]]]

RevocationDocs == {NoneV, Some(RevocationDocument("c", <<Fp("k1")>>))}

\* the <<discovery, revocation document>> pairs an offline verification is
\* given: every discovery document without a revocation document, and the
\* plain ones of either key with a revocation document that revokes k1
OfflineDocuments ==
    {<<discovery, NoneV>> : discovery \in WellKnownResponses}
    \cup {<<GoodDiscovery(k), revocation>> :
            k \in KeyIds, revocation \in RevocationDocs \ {NoneV}}

\* the schema as its publisher signed it, the same schema with its members
\* iterated in another order, and an altered one (keys "d" and "n", texts "sum", "adds" and "ADDS")
SignedSchema ==
    JObj(<< <<(<<110>>), JStr(<<115, 117, 109>>)>>,
            <<(<<100>>), JStr(<<97, 100, 100, 115>>)>> >>)
ReorderedSchema ==
    JObj(<< <<(<<100>>), JStr(<<97, 100, 100, 115>>)>>,
            <<(<<110>>), JStr(<<115, 117, 109>>)>> >>)
TamperedSchema ==
    JObj(<< <<(<<110>>), JStr(<<115, 117, 109>>)>>,
            <<(<<100>>), JStr(<<65, 68, 68, 83>>)>> >>)

SchemaSignature(k) == sign_data(k, canonicalize_and_hash(SignedSchema))

\* the <<schema, signature>> pairs a schema verification is given: the signed
\* schema with the signature of either key or with bytes that are no
\* signature, and the altered schema with the signature of k1
SignedSchemas ==
    {<<ReorderedSchema, SchemaSignature(k)>> : k \in KeyIds}
    \cup {<<ReorderedSchema, NotDer>>, <<TamperedSchema, SchemaSignature("k1")>>}

\* the listings of the skill directories that are verified: one file "f" with
\* the byte "d", and no entry
SkillEntries == {<<File(<<102>>, <<100>>)>>, <<>>}

SignedSkill == SkillDir(CHOOSE es \in SkillEntries : es # <<>>, NoneV)

SkillSignatures == {sign_skill(SignedSkill, k, d, "a", 0) : k \in KeyIds, d \in Domains}

SkillDirs ==
    {SkillDir(entries, sig_file) :
        entries \in SkillEntries,
        sig_file \in {NoneV} \cup {Some(sig) : sig \in SkillSignatures}}

\* where verify_skill_offline finds the signature: passed by the caller, read
\* from the directory, or nowhere
SignatureSources ==
    {[signature_data |-> Some(sig), sig_file |-> NoneV] : sig \in SkillSignatures}
    \cup {[signature_data |-> NoneV, sig_file |-> NoneV],
          [signature_data |-> NoneV,
           sig_file |-> Some(sign_skill(SignedSkill, "k1", "c", "a", 0))]}

SkillToolIds == {NoneV, Some("a@b")}

TrustBundle(documents, revocations) ==
    [schemapin_bundle_version |-> "1.2", documents |-> documents,
     revocations |-> revocations]

BundledDiscovery(domain, well_known) == [domain |-> domain, well_known |-> well_known]

EmptyBundle == TrustBundleResolver(TrustBundle(<<>>, <<>>))

\* a bundle with the discovery document of key k for domain "c"
GoodBundle(k) ==
    TrustBundleResolver(TrustBundle(<<BundledDiscovery("c", GoodDiscovery(k))>>, <<>>))

\* the same with a revocation document that revokes k
RevokingBundle(k) ==
    TrustBundleResolver(TrustBundle(<<BundledDiscovery("c", GoodDiscovery(k))>>,
                                    <<RevocationDocument("c", <<Fp(k)>>)>>))

\* a directory whose c.revocations.json does not parse
BrokenRevocations == LocalFileResolver("c" :> Some(GoodDiscovery("k1")), "c" :> NoneV)

\* a directory whose c.json does not parse
BrokenDiscovery == LocalFileResolver("c" :> NoneV, << >>)

\* a directory whose c.revocations.json holds the revocation document of
\* another domain
MisfiledRevocations ==
    LocalFileResolver("c" :> Some(GoodDiscovery("k1")),
                      "c" :> Some(RevocationDocument("b@c", <<Fp("k1")>>)))

Resolvers ==
    {EmptyBundle, GoodBundle("k1"), RevokingBundle("k1"), BrokenRevocations,
     MisfiledRevocations, ChainResolver(<<EmptyBundle, BrokenRevocations>>)}

-----------------------------------------------------------------------------
(* Operations: each is one call on the pin store shared by the run *)

Idle == [op |-> "idle"]
NoResult == [kind |-> "none"]

Init ==
    /\ tools = << >>
    /\ clock = 0
    /\ calls = 0
    /\ call = Idle
    /\ pre_tools = << >>
    /\ result = NoResult

\* a call starts when the previous one has returned and its result was taken
CanCall == call = Idle /\ calls < MaxCalls

Called(op_call, op_result, store, now) ==
    /\ tools' = store
    /\ clock' = now
    /\ calls' = calls + 1
    /\ call' = op_call
    /\ pre_tools' = tools
    /\ result' = op_result

CheckAndPin ==
    /\ CanCall
    /\ \E pair \in Pairs, fingerprint \in Fingerprints, now \in Readings(clock) :
        LET tool_id == pair[1]
            domain == pair[2]
            r == check_and_pin(tools, tool_id, domain, fingerprint, now)
        IN  Called([op |-> "check_and_pin", tool_id |-> tool_id, domain |-> domain,
                    fingerprint |-> fingerprint, now |-> now],
                   [kind |-> "pin", res |-> r.res], r.store, now)

AddKey ==
    /\ CanCall
    /\ \E pair \in Pairs, fingerprint \in Fingerprints, now \in Readings(clock) :
        LET tool_id == pair[1]
            domain == pair[2]
        IN  Called([op |-> "add_key", tool_id |-> tool_id, domain |-> domain,
                    fingerprint |-> fingerprint, now |-> now],
                   [kind |-> "unit"],
                   add_key(tools, tool_id, domain, fingerprint, now), now)

\* the store is written with to_json and replaced by from_json of the text
Reload ==
    /\ CanCall
    /\ \E order \in ValueOrders(tools) :
        LET json == to_json(tools, order)
        IN  Called([op |-> "reload", json |-> json], [kind |-> "unit"],
                   from_json(json), clock)

VerifySchemaOffline ==
    /\ CanCall
    /\ \E signed \in SignedSchemas, pair \in Pairs, documents \in OfflineDocuments :
        LET schema == signed[1]
            signature_b64 == signed[2]
            tool_id == pair[1]
            domain == pair[2]
            discovery == documents[1]
            revocation == documents[2]
            dry == verify_schema_offline(schema, signature_b64, domain, tool_id,
                                         discovery, revocation, tools, clock, clock)
        IN  \E now1 \in ReadingsIf(dry.read1, clock) :
            \E now2 \in ReadingsIf(dry.read2, now1) :
            LET r == verify_schema_offline(schema, signature_b64, domain, tool_id,
                                           discovery, revocation, tools, now1, now2)
            IN  Called([op |-> "verify_schema_offline", schema |-> schema,
                        signature_b64 |-> signature_b64, domain |-> domain,
                        tool_id |-> tool_id, discovery |-> discovery,
                        revocation |-> revocation],
                       r.result, r.store, now2)

VerifySchemaWithResolver ==
    /\ CanCall
    /\ \E signed \in SignedSchemas, pair \in Pairs, resolver \in Resolvers :
        LET schema == signed[1]
            signature_b64 == signed[2]
            tool_id == pair[1]
            domain == pair[2]
            dry == verify_schema_with_resolver(schema, signature_b64, domain, tool_id,
                                               resolver, tools, clock, clock)
        IN  \E now1 \in ReadingsIf(dry.read1, clock) :
            \E now2 \in ReadingsIf(dry.read2, now1) :
            LET r == verify_schema_with_resolver(schema, signature_b64, domain,
                                                 tool_id, resolver, tools, now1, now2)
            IN  Called([op |-> "verify_schema_with_resolver", schema |-> schema,
                        signature_b64 |-> signature_b64, domain |-> domain,
                        tool_id |-> tool_id, resolver |-> resolver],
                       r.result, r.store, now2)

VerifySkillOffline ==
    /\ CanCall
    /\ \E entries \in SkillEntries, source \in SignatureSources,
          documents \in OfflineDocuments,
          with_store \in BOOLEAN, tool_id \in SkillToolIds :
        LET discovery == documents[1]
            revocation_doc == documents[2]
            skill_dir == SkillDir(entries, source.sig_file)
            signature_data == source.signature_data
            pin_store == IF with_store THEN Some(tools) ELSE NoneV
            dry == verify_skill_offline(skill_dir, discovery, signature_data,
                                        revocation_doc, pin_store, tool_id,
                                        clock, clock)
        IN  /\ IsSome(tool_id) => with_store
            /\ \E now1 \in ReadingsIf(dry.read1, clock) :
               \E now2 \in ReadingsIf(dry.read2, now1) :
               LET r == verify_skill_offline(skill_dir, discovery, signature_data,
                                             revocation_doc, pin_store, tool_id,
                                             now1, now2)
               IN  Called([op |-> "verify_skill_offline", skill_dir |-> skill_dir,
                           discovery |-> discovery,
                           signature_data |-> signature_data,
                           revocation_doc |-> revocation_doc,
                           with_store |-> with_store, tool_id |-> tool_id,
                           canonicalized |-> r.canonicalized],
                          r.result, IF with_store THEN r.store[1] ELSE tools, now2)

VerifySkillWithResolver ==
    /\ CanCall
    /\ \E skill_dir \in SkillDirs, domain \in Domains, resolver \in Resolvers,
          with_store \in BOOLEAN, tool_id \in SkillToolIds :
        LET pin_store == IF with_store THEN Some(tools) ELSE NoneV
            dry == verify_skill_with_resolver(skill_dir, domain, resolver, pin_store,
                                              tool_id, clock, clock)
        IN  /\ IsSome(tool_id) => with_store
            /\ \E now1 \in ReadingsIf(dry.read1, clock) :
               \E now2 \in ReadingsIf(dry.read2, now1) :
               LET r == verify_skill_with_resolver(skill_dir, domain, resolver,
                                                   pin_store, tool_id, now1, now2)
               IN  Called([op |-> "verify_skill_with_resolver",
                           skill_dir |-> skill_dir, domain |-> domain,
                           resolver |-> resolver, with_store |-> with_store,
                           tool_id |-> tool_id, canonicalized |-> r.canonicalized],
                          r.result, IF with_store THEN r.store[1] ELSE tools, now2)

\* the caller takes the result and goes on to its next call
Return ==
    /\ call # Idle
    /\ calls < MaxCalls
    /\ call' = Idle
    /\ result' = NoResult
    /\ pre_tools' = tools
    /\ UNCHANGED <<tools, clock, calls>>

Next ==
    \/ CheckAndPin
    \/ AddKey
    \/ Reload
    \/ VerifySchemaOffline
    \/ VerifySchemaWithResolver
    \/ VerifySkillOffline
    \/ VerifySkillWithResolver
    \/ Return

Spec == Init /\ [][Next]_vars

-----------------------------------------------------------------------------
(* The functions that take no pin store, called on their own *)

\* longest revoked_keys list the revocation check is called with
MaxRevoked == 2

SeqsUpTo(S, n) == UNION {[1..k -> S] : k \in 0..n}

RevokedLists == SeqsUpTo(Fingerprints, MaxRevoked)

\* a function returned: the caller takes the result at once
\* a function is applied when the result of the last one was taken
CanApply == call = Idle

Applied(op_call, op_result) ==
    /\ CanApply
    /\ call' = op_call
    /\ result' = op_result
    /\ UNCHANGED <<tools, clock, calls, pre_tools>>

CheckRevocationCombined ==
    /\ CanApply
    /\ \E simple_revoked \in RevokedLists, listed \in RevokedLists, with_doc \in BOOLEAN,
       fingerprint \in Fingerprints :
        LET revocation_doc == IF with_doc THEN Some(RevocationDocument("c", listed))
                              ELSE NoneV
            r == check_revocation_combined(simple_revoked, revocation_doc, fingerprint)
        IN  /\ ~with_doc => listed = <<>>
            /\ Applied([op |-> "check_revocation_combined",
                        simple_revoked |-> simple_revoked,
                        revocation_doc |-> revocation_doc,
                        fingerprint |-> fingerprint],
                       [kind |-> "result", ok |-> r.ok, val |-> r.val])

\* longest list of resolvers a chain is built from
MaxChain == 2

\* the resolvers a chain is built from
ChainMembers ==
    {EmptyBundle, GoodBundle("k1"), RevokingBundle("k1"), RevokingBundle("k2"),
     BrokenRevocations, BrokenDiscovery}

Chains == {ChainResolver(resolvers) : resolvers \in SeqsUpTo(ChainMembers, MaxChain)}

ResolveDiscovery ==
    /\ CanApply
    /\ \E resolver \in Chains, domain \in Domains :
        LET r == resolve_discovery(resolver, domain)
        IN  Applied([op |-> "resolve_discovery", resolver |-> resolver,
                     domain |-> domain],
                    [kind |-> "resolved", ok |-> r.ok,
                     val |-> IF r.ok THEN <<Some(r.val), "">> ELSE <<NoneV, r.val>>,
                     tried |-> r.tried])

ResolveRevocation ==
    /\ CanApply
    /\ \E resolver \in Chains, domain \in Domains :
        LET r == resolve_revocation(resolver, domain, GoodDiscovery("k1"))
        IN  Applied([op |-> "resolve_revocation", resolver |-> resolver,
                     domain |-> domain],
                    [kind |-> "resolved", ok |-> r.ok,
                     val |-> IF r.ok THEN <<r.val, "">> ELSE <<NoneV, r.val>>,
                     tried |-> r.tried])

\* The JSON values canonicalize_schema is given: keys "a", "ab" and "b", a
\* number of two digits and a string of a quote, a backslash and a line feed,
\* arrays and objects of at most MaxMembers of them, and arrays and objects of
\* at most MaxMembers of these and of an object and an array that nest.
MaxMembers == 2

Keys == {<<97>>, <<97, 98>>, <<98>>}

EscapedText == JStr(<<34, 92, 10>>)

Leaves == {JNum(10), EscapedText}

UnsortedObject ==
    JObj(<< <<(<<98>>), JNum(10)>>, <<(<<97, 98>>), EscapedText>>,
            <<(<<97>>), JNum(7)>> >>)

MixedArray ==
    JArr(<<EscapedText, JNum(7),
           JObj(<< <<(<<98>>), JNum(7)>>, <<(<<97>>), EscapedText>> >>)>>)

Samples == Leaves \cup {UnsortedObject, MixedArray}

Arrays(values) == {JArr(items) : items \in SeqsUpTo(values, MaxMembers)}

Objects(values) ==
    {JObj(members) :
        members \in {m \in SeqsUpTo(Keys \X values, MaxMembers) :
                        \A i, j \in 1..Len(m) : m[i][1] = m[j][1] => i = j}}

JsonValues ==
    Leaves \cup Arrays(Leaves) \cup Objects(Leaves)
           \cup Arrays(Samples) \cup Objects(Samples)

\* the values that differ from a value in the order of the members of its
\* objects only, at any depth
RECURSIVE Shuffles(_)
Shuffles(value) ==
    IF value.t = "obj" \/ value.t = "arr"
    THEN LET n == Len(value.v)
             inner == [i \in 1..n |->
                        Shuffles(IF value.t = "obj" THEN value.v[i][2] ELSE value.v[i])]
             choices == {c \in [1..n -> UNION {inner[i] : i \in 1..n}] :
                            \A i \in 1..n : c[i] \in inner[i]}
         IN  IF value.t = "obj"
             THEN {JObj([i \in 1..n |-> <<value.v[p[i]][1], c[p[i]]>>]) :
                        p \in Permutations(1..n), c \in choices}
             ELSE {JArr(c) : c \in choices}
    ELSE {value}

\* canonicalize_schema of two values that differ in the order of members
CanonicalizeSchema ==
    /\ CanApply
    /\ \E a \in JsonValues :
       \E b \in Shuffles(a) :
        Applied([op |-> "canonicalize_schema", a |-> a, b |-> b],
                [kind |-> "canonical", a |-> canonicalize_schema(a),
                 b |-> canonicalize_schema(b)])

\* canonicalize_schema of a value, and of the value its canonical string reads as
CanonicalizeParsed ==
    /\ CanApply
    /\ \E value \in JsonValues :
        LET canonical == canonicalize_schema(value)
            parsed == from_str(canonical)
        IN  Applied([op |-> "canonicalize_parsed", value |-> value],
                    [kind |-> "recanonical", canonical |-> canonical,
                     parsed |-> parsed, again |-> canonicalize_schema(parsed)])

\* the bytes that are signed and verified: two digests
Messages == {canonicalize_and_hash(SignedSchema), canonicalize_and_hash(TamperedSchema)}

\* the signatures verify_signature is given: the signature of either key on
\* either message, a string that is not base64 and base64 of bytes that are
\* no DER signature
Signatures ==
    {sign_data(k, data) : k \in KeyIds, data \in Messages} \cup {NotDer, NotBase64}

VerifySignature ==
    /\ CanApply
    /\ \E public_key_pem \in {Pem(k) : k \in KeyIds} \cup BadPems,
          data \in Messages, signature \in Signatures :
        LET r == verify_signature(public_key_pem, data, signature)
        IN  Applied([op |-> "verify_signature", public_key_pem |-> public_key_pem,
                     data |-> data, signature |-> signature],
                    [kind |-> "verified", ok |-> r.ok,
                     valid |-> IF r.ok THEN r.val ELSE FALSE,
                     error |-> IF r.ok THEN "" ELSE r.val])

\* The skill directories that are canonicalized: at most MaxEntries entries
\* with different names among the files "a" and "ab" with the bytes "bc" or
\* "c", a file .schemapin.sig, a directory "d" and the links "s" to a file and
\* to a directory, in every order read_dir may yield them.
MaxEntries == 3

SkillFiles == {File(name, bytes) : name \in {<<97>>, <<97, 98>>}, bytes \in {<<98, 99>>, <<99>>}}

\* what the directory "d" has: a file after a .schemapin.sig, two files
\* against the order of their names, or a link only
Nested ==
    {<<File(<<97, 98>>, <<99>>), File(SigFileName, <<98, 99>>)>>,
     <<File(<<97, 98>>, <<99>>), File(<<97>>, <<98, 99>>)>>,
     <<Symlink(File(<<97>>, <<99>>))>>}

EntryChoices ==
    SkillFiles
    \cup {File(SigFileName, <<99>>)}
    \cup {Directory(<<100>>, entries) : entries \in Nested}
    \cup {Symlink(File(<<115>>, <<99>>)),
          Symlink(Directory(<<115>>, <<File(<<97>>, <<99>>)>>))}

Listings ==
    {entries \in SeqsUpTo(EntryChoices, MaxEntries) :
        \A i, j \in 1..Len(entries) : entries[i].name = entries[j].name => i = j}

\* the listings of a directory with the same entries, created in any order,
\* at every level
RECURSIVE Recreations(_)
Recreations(entries) ==
    LET n == Len(entries)
        inner == [i \in 1..n |->
                    IF entries[i].kind = "dir"
                    THEN {[entries[i] EXCEPT !.entries = listing] :
                            listing \in Recreations(entries[i].entries)}
                    ELSE {entries[i]}]
        choices == {c \in [1..n -> UNION {inner[i] : i \in 1..n}] :
                        \A i \in 1..n : c[i] \in inner[i]}
    IN  {[i \in 1..n |-> c[p[i]]] : p \in Permutations(1..n), c \in choices}

\* canonicalize_skill of a directory, and of the same content created in
\* another order
CanonicalizeSkill ==
    /\ CanApply
    /\ \E entries \in Listings :
       \E recreated \in Recreations(entries) :
        Applied([op |-> "canonicalize_skill", entries |-> entries,
                 recreated |-> recreated],
                [kind |-> "canonical_skill",
                 first |-> canonicalize_skill([entries |-> entries, sig_file |-> NoneV]),
                 second |-> canonicalize_skill([entries |-> recreated,
                                                sig_file |-> NoneV])])

\* the skill directories of regular files only
FileListings ==
    {entries \in Listings : \A i \in 1..Len(entries) : entries[i] \in SkillFiles}

\* sign_skill of a directory, which writes .schemapin.sig into it, and then
\* verify_skill_offline of the directory as it is later found, with the
\* signature file still in it, against the discovery document of a key
SignAndVerify ==
    /\ CanApply
    /\ \E signed \in FileListings \ {<<>>}, verified \in FileListings,
          k \in KeyIds, discovery_key \in KeyIds :
        LET sig == sign_skill(SkillDir(signed, NoneV), k, "c", "a", 0)
            r == verify_skill_offline(SkillDir(verified, Some(sig)),
                                      GoodDiscovery(discovery_key), NoneV, NoneV,
                                      NoneV, NoneV, 0, 0)
        IN  Applied([op |-> "sign_and_verify", signed |-> signed,
                     verified |-> verified, k |-> k,
                     discovery_key |-> discovery_key],
                    [kind |-> "skill_verified", verification |-> r.result])

\* the manifests of the directories, and the empty one
Manifests ==
    {<<>>} \cup {canonicalize_skill([entries |-> entries, sig_file |-> NoneV]).manifest :
                    entries \in {l \in Listings : walk_sorted(<<>>, l, <<>>) # <<>>}}

DetectTamperedFiles ==
    /\ CanApply
    /\ \E current \in Manifests, signed \in Manifests :
        Applied([op |-> "detect_tampered_files", current |-> current,
                 signed |-> signed],
                [kind |-> "tampered", files |-> detect_tampered_files(current, signed)])

\* the skill names a .schemapin.sig can be edited to carry
SkillNames == {"a", "a@b"}

\* sign_skill, a verify_skill_offline that pins the key for the signed
\* skill_name and domain, then .schemapin.sig edited to carry another
\* skill_name or domain and verify_skill_offline again with the same store,
\* directory and discovery document and no tool_id
VerifyEditedSignature ==
    /\ CanApply
    /\ \E k \in KeyIds, skill_name \in SkillNames, domain \in Domains :
        LET sig == sign_skill(SignedSkill, k, "c", "a", 0)
            first == verify_skill_offline(SkillDir(SignedSkill.entries, Some(sig)),
                                          GoodDiscovery(k), NoneV, NoneV,
                                          Some(<< >>), NoneV, 0, 0)
            edited == [sig EXCEPT !.skill_name = skill_name, !.domain = domain]
            r == verify_skill_offline(SkillDir(SignedSkill.entries, Some(edited)),
                                      GoodDiscovery(k), NoneV, NoneV,
                                      first.store, NoneV, 0, 0)
        IN  Applied([op |-> "verify_edited_signature", k |-> k, signed |-> sig,
                     edited |-> edited],
                    [kind |-> "skill_verified", first |-> first.result,
                     verification |-> r.result, store |-> r.store[1]])

\* canonicalize_skill of two directories of regular files
CanonicalizeTwo ==
    /\ CanApply
    /\ \E entries \in FileListings, others \in FileListings :
        Applied([op |-> "canonicalize_two", entries |-> entries, others |-> others],
                [kind |-> "canonical_skill",
                 first |-> canonicalize_skill(SkillDir(entries, NoneV)),
                 second |-> canonicalize_skill(SkillDir(others, NoneV))])

\* the documents of a trust bundle: at most MaxDocuments, of any domain and
\* key, a domain more than once too
MaxDocuments == 2

BundledDocuments ==
    SeqsUpTo({BundledDiscovery(domain, GoodDiscovery(k)) : domain \in Domains, k \in KeyIds},
             MaxDocuments)

\* find_discovery on a bundle and resolve_discovery on the resolver built
\* from it
FindDiscovery ==
    /\ CanApply
    /\ \E documents \in BundledDocuments, domain \in Domains :
        LET bundle == TrustBundle(documents, <<>>)
        IN  Applied([op |-> "find_discovery", bundle |-> bundle, domain |-> domain],
                    [kind |-> "found", found |-> find_discovery(bundle, domain),
                     resolved |-> resolve_discovery(TrustBundleResolver(bundle), domain)])

\* canonicalize_skill of a directory, and verify_skill_offline of it with a
\* supplied signature, the discovery document of the signing key, no
\* revocation and an empty pin store
VerifySuppliedSignature ==
    /\ CanApply
    /\ \E entries \in Listings, k \in KeyIds :
        LET skill_dir == SkillDir(entries, NoneV)
            sig == sign_skill(SignedSkill, k, "c", "a", 0)
            r == verify_skill_offline(skill_dir, GoodDiscovery(k), Some(sig), NoneV,
                                      Some(<< >>), NoneV, 0, 0)
        IN  Applied([op |-> "verify_supplied_signature", entries |-> entries, k |-> k],
                    [kind |-> "skill_verified", canonical |-> canonicalize_skill(skill_dir),
                     verification |-> r.result])

FunctionNext ==
    \/ CheckRevocationCombined
    \/ ResolveDiscovery
    \/ ResolveRevocation
    \/ CanonicalizeSchema
    \/ CanonicalizeParsed
    \/ VerifySignature
    \/ CanonicalizeSkill
    \/ SignAndVerify
    \/ DetectTamperedFiles
    \/ VerifyEditedSignature
    \/ CanonicalizeTwo
    \/ FindDiscovery
    \/ VerifySuppliedSignature
    \/ Return

FunctionSpec == Init /\ [][FunctionNext]_vars

-----------------------------------------------------------------------------
(* What the call that has just returned was given *)

SchemaOps == {"verify_schema_offline", "verify_schema_with_resolver"}
SkillOps == {"verify_skill_offline", "verify_skill_with_resolver"}
OfflineOps == {"verify_schema_offline", "verify_skill_offline"}
ResolverOps == {"verify_schema_with_resolver", "verify_skill_with_resolver"}
VerifyOps == SchemaOps \cup SkillOps

Elements(seq) == {seq[i] : i \in 1..Len(seq)}

\* the discovery document the verification worked with, if it got one
UsedDiscovery ==
    IF call.op \in OfflineOps THEN Some(call.discovery)
    ELSE LET d == resolve_discovery(call.resolver, call.domain)
         IN  IF d.ok THEN Some(d.val) ELSE NoneV

\* the revocation document it worked with: Ok(Option<doc>) or Err
UsedRevocation ==
    IF call.op = "verify_schema_offline" THEN [ok |-> TRUE, val |-> call.revocation]
    ELSE IF call.op = "verify_skill_offline"
    THEN [ok |-> TRUE, val |-> call.revocation_doc]
    ELSE resolve_revocation(call.resolver, call.domain, UsedDiscovery[1])

\* the SkillSignature a skill verification worked with, if it got one
UsedSignature ==
    IF call.op = "verify_skill_offline" /\ IsSome(call.signature_data)
    THEN call.signature_data
    ELSE call.skill_dir.sig_file

\* whether the call was given the pin store
UsesStore == call.op \in SchemaOps \/ call.with_store

\* the <<tool_id, domain>> the pin gate looks up, if the call determines one
PinPair ==
    IF call.op \in SchemaOps THEN Some(<<call.tool_id, call.domain>>)
    ELSE IF IsNone(UsedSignature) THEN NoneV
    ELSE Some(<<IF IsSome(call.tool_id) THEN call.tool_id[1]
                ELSE UsedSignature[1].skill_name,
                UsedSignature[1].domain>>)

\* the fingerprint of the discovery key, if the call has a parseable one
KeyFingerprint ==
    IF IsSome(UsedDiscovery) /\ calculate_key_id(UsedDiscovery[1].public_key_pem).ok
    THEN Some(calculate_key_id(UsedDiscovery[1].public_key_pem).val)
    ELSE NoneV

\* fingerprints listed by the discovery document / by the revocation document
SimpleRevoked == Elements(UsedDiscovery[1].revoked_keys)
DocRevoked ==
    IF UsedRevocation.ok /\ IsSome(UsedRevocation.val)
    THEN {rk.fingerprint : rk \in Elements(UsedRevocation.val[1].revoked_keys)}
    ELSE {}
KeyRevoked ==
    IsSome(KeyFingerprint) /\ KeyFingerprint[1] \in SimpleRevoked \cup DocRevoked

\* the fingerprints pinned for a pair in a store
PinnedFor(store, pair) ==
    IF composite_key(pair[1], pair[2]) \in DOMAIN store
    THEN {pk.fingerprint :
            pk \in Elements(store[composite_key(pair[1], pair[2])].pinned_keys)}
    ELSE {}
HasRecord(store, pair) == composite_key(pair[1], pair[2]) \in DOMAIN store

\* a well-formed signature made with the discovery key over the artifact as
\* it is presented
ArtifactDigest ==
    IF call.op \in SchemaOps THEN Some(canonicalize_and_hash(call.schema))
    ELSE IF canonicalize_skill(call.skill_dir).ok
    THEN Some(canonicalize_skill(call.skill_dir).root_hash)
    ELSE NoneV
PresentedSignature ==
    IF call.op \in SchemaOps THEN Some(call.signature_b64)
    ELSE IF IsSome(UsedSignature) THEN Some(UsedSignature[1].signature)
    ELSE NoneV
SignatureVerifies ==
    /\ IsSome(UsedDiscovery) /\ IsSome(PresentedSignature) /\ IsSome(ArtifactDigest)
    /\ PresentedSignature[1].base64 /\ PresentedSignature[1].der
    /\ PresentedSignature[1].signer
         = from_public_key_pem(UsedDiscovery[1].public_key_pem)
    /\ IsSome(PresentedSignature[1].signer)
    /\ PresentedSignature[1].signed = ArtifactDigest

ErrorCode == IF IsSome(result.error_code) THEN result.error_code[1] ELSE "none"

\* the discovery document has a PEM public key and a schema version
DiscoveryValidates(discovery) ==
    /\ PemHeader \in Elements(discovery.public_key_pem)
    /\ discovery.schema_version # ""

-----------------------------------------------------------------------------
(* Claims *)

\* C1: verify_schema_offline returns valid=true if and only if the discovery
\* document validates, the fingerprint of its key can be computed, that
\* fingerprint is in neither discovery.revoked_keys nor the revocation
\* document, check_and_pin does not return Changed, and the signature
\* verifies under the discovery key over the hash of the canonical schema.
C1_ValidIffAllStepsPass ==
    call.op = "verify_schema_offline" =>
        (result.valid <=>
            /\ DiscoveryValidates(call.discovery)
            /\ IsSome(KeyFingerprint)
            /\ ~KeyRevoked
            /\ (HasRecord(pre_tools, PinPair[1])
                    => KeyFingerprint[1] \in PinnedFor(pre_tools, PinPair[1]))
            /\ SignatureVerifies)

C1_Witness ==
    /\ call.op = "verify_schema_offline"
    /\ result.valid
    /\ call.schema = ReorderedSchema
    /\ HasRecord(pre_tools, PinPair[1])

\* the steps a verification takes before the pin gate all pass: the documents
\* are fetched, the discovery document validates, the key is not revoked
StepsBeforePinGatePass ==
    /\ IsSome(UsedDiscovery)
    /\ DiscoveryValidates(UsedDiscovery[1])
    /\ IsSome(KeyFingerprint)
    /\ UsedRevocation.ok
    /\ ~KeyRevoked

\* a verification on the pin store for a pair that has a record, with a
\* discovery key whose fingerprint the record does not hold
UnpinnedKeyForPinnedPair ==
    /\ call.op \in VerifyOps
    /\ UsesStore
    /\ IsSome(PinPair)
    /\ IsSome(KeyFingerprint)
    /\ HasRecord(pre_tools, PinPair[1])
    /\ KeyFingerprint[1] \notin PinnedFor(pre_tools, PinPair[1])

\* C2 as stated: once a record exists for tool_id@domain, a verification for
\* that pair whose discovery key is not in the record's pinned set returns
\* valid=false with error code KEY_PIN_MISMATCH.
C2_Original ==
    UnpinnedKeyForPinnedPair =>
        ~result.valid /\ ErrorCode = "KEY_PIN_MISMATCH"

\* C2: once a record exists for tool_id@domain, a verification for that pair
\* whose discovery key is not in the record's pinned set returns valid=false,
\* even when the signature verifies under that key; its error code is
\* KEY_PIN_MISMATCH whenever the steps before the pin gate pass.
C2_UnpinnedKeyRejected ==
    UnpinnedKeyForPinnedPair =>
        /\ ~result.valid
        /\ StepsBeforePinGatePass => ErrorCode = "KEY_PIN_MISMATCH"

C2_Witness ==
    /\ UnpinnedKeyForPinnedPair
    /\ StepsBeforePinGatePass
    /\ SignatureVerifies
    /\ ErrorCode = "KEY_PIN_MISMATCH"

\* an offline verification whose discovery key is listed as revoked
OfflineWithRevokedKey ==
    /\ call.op \in OfflineOps
    /\ KeyRevoked

\* C3 as stated: in both offline flows, whenever the discovery key's
\* fingerprint is in discovery.revoked_keys or the revocation document, the
\* call returns KEY_REVOKED and the pin store is as it was before the call.
C3_Original ==
    OfflineWithRevokedKey =>
        /\ ~result.valid
        /\ ErrorCode = "KEY_REVOKED"
        /\ tools = pre_tools

\* the steps an offline verification takes before the revocation gate pass
StepsBeforeRevocationGatePass ==
    /\ call.op \in SkillOps => IsSome(UsedSignature)
    /\ DiscoveryValidates(UsedDiscovery[1])

\* C3: in both offline flows, whenever the discovery key's fingerprint is in
\* discovery.revoked_keys or the revocation document, the call returns
\* valid=false and the pin store is as it was before the call: the revoked key
\* is never pinned; the error code is KEY_REVOKED whenever the steps before
\* the revocation gate pass.
C3_RevokedKeyNeverPinned ==
    OfflineWithRevokedKey =>
        /\ ~result.valid
        /\ tools = pre_tools
        /\ StepsBeforeRevocationGatePass => ErrorCode = "KEY_REVOKED"

\* a revoked key on first use of the pair, with a signature that verifies
C3_Witness ==
    /\ OfflineWithRevokedKey
    /\ UsesStore
    /\ ~HasRecord(pre_tools, PinPair[1])
    /\ SignatureVerifies
    /\ ErrorCode = "KEY_REVOKED"

\* the error code of the earliest step of verify_schema_offline that fails
EarliestFailingStep ==
    IF ~DiscoveryValidates(call.discovery) THEN "DISCOVERY_INVALID"
    ELSE IF IsNone(KeyFingerprint) THEN "KEY_NOT_FOUND"
    ELSE IF KeyRevoked THEN "KEY_REVOKED"
    ELSE IF /\ HasRecord(pre_tools, PinPair[1])
            /\ KeyFingerprint[1] \notin PinnedFor(pre_tools, PinPair[1])
    THEN "KEY_PIN_MISMATCH"
    ELSE IF ~SignatureVerifies THEN "SIGNATURE_INVALID"
    ELSE "none"

\* C4: the error code of verify_schema_offline is that of the earliest failing
\* step, in the order discovery validation, fingerprint, revocation, pin gate,
\* signature.
C4_EarliestFailingStepDecides ==
    call.op = "verify_schema_offline" => ErrorCode = EarliestFailingStep

\* a call in which two steps would fail, the earlier one being reported
C4_Witness ==
    /\ call.op = "verify_schema_offline"
    /\ ErrorCode = "KEY_REVOKED"
    /\ HasRecord(pre_tools, PinPair[1])
    /\ KeyFingerprint[1] \notin PinnedFor(pre_tools, PinPair[1])
    /\ ~SignatureVerifies

\* C5: every VerificationResult has valid=true with no error_code and with
\* key_pinning present, or valid=false with exactly one error_code of the
\* closed taxonomy.
C5_ResultWellFormed ==
    result.kind = "verification" =>
        IF result.valid
        THEN IsNone(result.error_code) /\ IsSome(result.key_pinning)
        ELSE IsSome(result.error_code) /\ result.error_code[1] \in ErrorCodes

C5_Witness ==
    /\ call.op = "verify_skill_with_resolver"
    /\ result.kind = "verification"
    /\ ~result.valid
    /\ ErrorCode = "KEY_REVOKED"

\* the pin store holds a record for the pair the call verified that contains
\* the fingerprint of the key that verified
VerifyingKeyPinned ==
    /\ IsSome(PinPair)
    /\ HasRecord(tools, PinPair[1])
    /\ KeyFingerprint[1] \in PinnedFor(tools, PinPair[1])

C7_CheckAndPinResult ==
    call.op = "check_and_pin" =>
        LET pair == <<call.tool_id, call.domain>>
            pinned == call.fingerprint \in PinnedFor(pre_tools, pair)
        IN  /\ result.res = "FirstUse" <=> ~HasRecord(pre_tools, pair)
            /\ result.res = "Matched" <=> HasRecord(pre_tools, pair) /\ pinned
            /\ result.res = "Changed" <=> HasRecord(pre_tools, pair) /\ ~pinned

\* the fingerprint matches a key of the record that is not its first
C7_Witness ==
    /\ call.op = "check_and_pin"
    /\ result.res = "Matched"
    /\ pre_tools[composite_key(call.tool_id, call.domain)].pinned_keys[1].fingerprint
         # call.fingerprint

\* C8: when check_and_pin returns Changed, or a verification returns
\* KEY_PIN_MISMATCH, the pin store is as it was before the call.
C8_ChangedLeavesStore ==
    (\/ call.op = "check_and_pin" /\ result.res = "Changed"
     \/ call.op \in VerifyOps /\ ErrorCode = "KEY_PIN_MISMATCH")
        => tools = pre_tools

C8_Witness ==
    /\ call.op \in VerifyOps
    /\ ErrorCode = "KEY_PIN_MISMATCH"
    /\ SignatureVerifies
    /\ clock > pre_tools[composite_key(PinPair[1][1], PinPair[1][2])].pinned_keys[1].last_seen

\* the records a store holds for a (tool_id, domain) pair
RecordsOf(store, pair) ==
    {store[key] : key \in {k \in DOMAIN store :
                            <<store[k].tool_id, store[k].domain>> = pair}}

\* C9: records are identified by the (tool_id, domain) pair: check_and_pin and
\* add_key on one pair never create or change a record of another pair, and
\* check_and_pin is never answered from the record of another pair.
C9_PairsAreIndependent ==
    call.op \in {"check_and_pin", "add_key"} =>
        LET pair == <<call.tool_id, call.domain>>
        IN  /\ \A other \in (ToolIds \X Domains) \ {pair} :
                    RecordsOf(tools, other) = RecordsOf(pre_tools, other)
            /\ (call.op = "check_and_pin" /\ result.res # "FirstUse")
                    => RecordsOf(pre_tools, pair) # {}

\* C10: from_json(to_json(store)) holds the same records, retrievable under the
\* same (tool_id, domain) pairs with the same pinned keys, timestamps and trust
\* levels, whatever order to_json wrote them in.
C10_JsonRoundTrip ==
    call.op = "reload" =>
        /\ tools = pre_tools
        /\ \A pair \in ToolIds \X Domains :
                get_tool(tools, pair[1], pair[2]) = get_tool(pre_tools, pair[1], pair[2])

\* a store of two records pinned at different times, written in either order
C10_Witness ==
    /\ call.op = "reload"
    /\ Cardinality(DOMAIN pre_tools) = 2
    /\ Len(call.json) = 2
    /\ call.json[1].pinned_keys[1].first_seen > call.json[2].pinned_keys[1].first_seen

\* C11: check_revocation_combined succeeds exactly when the fingerprint is in
\* neither the simple list nor the revocation document; when it fails, with the
\* fingerprint in the simple list or in a document that is present, the error
\* code is KEY_REVOKED.
C11_RevokedInEitherSource ==
    call.op = "check_revocation_combined" =>
        LET in_list == call.fingerprint \in Elements(call.simple_revoked)
            in_doc == /\ IsSome(call.revocation_doc)
                      /\ \E rk \in Elements(call.revocation_doc[1].revoked_keys) :
                            rk.fingerprint = call.fingerprint
        IN  /\ result.ok <=> ~in_list /\ ~in_doc
            /\ (in_list \/ in_doc) => result.val = "KEY_REVOKED"

\* the fingerprint is the second entry of the document and not in the list
C11_Witness ==
    /\ call.op = "check_revocation_combined"
    /\ Len(call.simple_revoked) = 1
    /\ call.fingerprint \notin Elements(call.simple_revoked)
    /\ IsSome(call.revocation_doc)
    /\ Len(call.revocation_doc[1].revoked_keys) = 2
    /\ call.revocation_doc[1].revoked_keys[1].fingerprint # call.fingerprint
    /\ call.revocation_doc[1].revoked_keys[2].fingerprint = call.fingerprint
    /\ ~result.ok

\* the resolver of the call returned an error for the discovery document or
\* for the revocation document
ResolutionFailed ==
    /\ call.op \in ResolverOps
    /\ IsNone(UsedDiscovery) \/ ~UsedRevocation.ok

\* C12: in verify_schema_with_resolver and verify_skill_with_resolver, when
\* resolve_discovery or resolve_revocation returns an error the result is
\* valid=false with DISCOVERY_FETCH_FAILED and the pin store is unchanged.
C12_ResolverErrorFailsClosed ==
    ResolutionFailed =>
        /\ ~result.valid
        /\ ErrorCode = "DISCOVERY_FETCH_FAILED"
        /\ tools = pre_tools

\* the revocation document cannot be read, on first use of the pair, with a
\* discovery document and a signature that would verify
C12_Witness ==
    /\ ResolutionFailed
    /\ IsSome(UsedDiscovery)
    /\ UsesStore
    /\ ~HasRecord(pre_tools, PinPair[1])
    /\ SignatureVerifies
    /\ ErrorCode = "DISCOVERY_FETCH_FAILED"

\* a revocation source the resolver consulted for the domain failed with an
\* error: the resolver itself, or a member of a chain up to the first member
\* that returns a document
RECURSIVE RevocationSourceFailed(_, _, _)
RevocationSourceFailed(resolver, domain, discovery) ==
    IF resolver.kind = "chain"
    THEN \E i \in 1..Len(resolver.resolvers) :
            /\ RevocationSourceFailed(resolver.resolvers[i], domain, discovery)
            /\ \A j \in 1..(i - 1) :
                LET r == resolve_revocation(resolver.resolvers[j], domain, discovery)
                IN  ~(r.ok /\ IsSome(r.val))
    ELSE ~resolve_revocation(resolver, domain, discovery).ok

\* a verification of a schema through a resolver that found the discovery
\* document and consulted a revocation source that failed
SchemaRevocationSourceFailed ==
    /\ call.op = "verify_schema_with_resolver"
    /\ IsSome(UsedDiscovery)
    /\ RevocationSourceFailed(call.resolver, call.domain, UsedDiscovery[1])

\* C13 as stated: through every resolver, a ChainResolver included, a
\* verification during which a consulted revocation source failed with an error
\* is never valid=true and returns DISCOVERY_FETCH_FAILED.
C13_Original ==
    SchemaRevocationSourceFailed =>
        ~result.valid /\ ErrorCode = "DISCOVERY_FETCH_FAILED"

\* C13: a verification through verify_schema_with_resolver during which a
\* consulted revocation source failed returns valid=false with
\* DISCOVERY_FETCH_FAILED when the resolver is not a ChainResolver; a
\* ChainResolver swallows the error, so that the verification goes on as if
\* that source had no document and never reports DISCOVERY_FETCH_FAILED for it.
C13_FailClosedExceptChain ==
    SchemaRevocationSourceFailed =>
        IF call.resolver.kind = "chain"
        THEN /\ UsedRevocation.ok
             /\ ErrorCode # "DISCOVERY_FETCH_FAILED"
        ELSE ~result.valid /\ ErrorCode = "DISCOVERY_FETCH_FAILED"

\* a schema accepted through a chain whose revocation source failed
C13_Witness ==
    /\ SchemaRevocationSourceFailed
    /\ call.resolver.kind = "chain"
    /\ result.valid

\* the members 1..n of a chain, in list order
FirstMembers(n) == [i \in 1..n |-> i]

\* the least member of a non-empty set of members
FirstOf(members) == CHOOSE i \in members : \A j \in members : i <= j

\* C14: ChainResolver.resolve_discovery consults its resolvers in list order,
\* returns the document of the first one that succeeds without consulting a
\* later one, and fails only when every one fails: with the error of the last
\* one, or with 'No resolvers configured' for an empty chain.
C14_ChainDiscoveryFirstHit ==
    call.op = "resolve_discovery" =>
        LET resolvers == call.resolver.resolvers
            hits == {i \in 1..Len(resolvers) :
                        resolve_discovery(resolvers[i], call.domain).ok}
        IN  IF hits = {}
            THEN /\ ~result.ok
                 /\ result.tried = FirstMembers(Len(resolvers))
                 /\ result.val[2] =
                        IF Len(resolvers) = 0
                        THEN "Discovery: No resolvers configured"
                        ELSE resolve_discovery(resolvers[Len(resolvers)],
                                               call.domain).val
            ELSE /\ result.ok
                 /\ result.tried = FirstMembers(FirstOf(hits))
                 /\ result.val[1] =
                        Some(resolve_discovery(resolvers[FirstOf(hits)],
                                               call.domain).val)

\* two members have different documents for the domain: the first one's is
\* returned and the second is not consulted
C14_Witness ==
    /\ call.op = "resolve_discovery"
    /\ Len(call.resolver.resolvers) = 2
    /\ resolve_discovery(call.resolver.resolvers[1], call.domain).ok
    /\ resolve_discovery(call.resolver.resolvers[2], call.domain).ok
    /\ resolve_discovery(call.resolver.resolvers[1], call.domain).val
         # resolve_discovery(call.resolver.resolvers[2], call.domain).val
    /\ result.ok
    /\ result.tried = <<1>>

\* C15: ChainResolver.resolve_revocation never returns an error: it returns the
\* first Some document of its resolvers in list order, skipping those that
\* return None or an error, and None when none returns Some.
C15_ChainRevocationSwallowsErrors ==
    call.op = "resolve_revocation" =>
        LET resolvers == call.resolver.resolvers
            member(i) == resolve_revocation(resolvers[i], call.domain,
                                            GoodDiscovery("k1"))
            somes == {i \in 1..Len(resolvers) : member(i).ok /\ IsSome(member(i).val)}
        IN  /\ result.ok
            /\ IF somes = {}
               THEN /\ result.val[1] = NoneV
                    /\ result.tried = FirstMembers(Len(resolvers))
               ELSE /\ result.val[1] = member(FirstOf(somes)).val
                    /\ result.tried = FirstMembers(FirstOf(somes))

\* the first member fails with an error and the second has a document
C15_Witness ==
    /\ call.op = "resolve_revocation"
    /\ Len(call.resolver.resolvers) = 2
    /\ ~resolve_revocation(call.resolver.resolvers[1], call.domain,
                           GoodDiscovery("k1")).ok
    /\ result.ok
    /\ IsSome(result.val[1])
    /\ result.tried = <<1, 2>>

\* a pinned key keeps everything but its last_seen
KeyKept(old, new) ==
    /\ new.fingerprint = old.fingerprint
    /\ new.first_seen = old.first_seen
    /\ new.trust_level = old.trust_level

\* C16: the pinned keys of a record grow only through add_key: no operation
\* removes a record or a key, no operation but add_key appends a key to a
\* record that exists (check_and_pin never does), and a pinned key keeps its
\* fingerprint, first_seen and trust_level; only its last_seen may change.
C16_KeysGrowOnlyThroughAddKey ==
    \A key \in DOMAIN pre_tools :
        /\ key \in DOMAIN tools
        /\ tools[key].tool_id = pre_tools[key].tool_id
        /\ tools[key].domain = pre_tools[key].domain
        /\ Len(tools[key].pinned_keys) >= Len(pre_tools[key].pinned_keys)
        /\ \A i \in 1..Len(pre_tools[key].pinned_keys) :
                KeyKept(pre_tools[key].pinned_keys[i], tools[key].pinned_keys[i])
        /\ Len(tools[key].pinned_keys) > Len(pre_tools[key].pinned_keys) =>
                /\ call.op = "add_key"
                /\ key = composite_key(call.tool_id, call.domain)
                /\ Len(tools[key].pinned_keys) = Len(pre_tools[key].pinned_keys) + 1

\* a check of a record with two keys matched one of them at a later time: its
\* last_seen moved and nothing else did
C16_Witness ==
    /\ call.op \in {"check_and_pin"} \cup VerifyOps
    /\ \E key \in DOMAIN pre_tools :
        /\ Len(pre_tools[key].pinned_keys) = 2
        /\ \E i \in 1..2 :
            pre_tools[key].pinned_keys[i].last_seen # tools[key].pinned_keys[i].last_seen

\* C17: every PinnedTool of the store has at least one pinned key, in every
\* state reached by check_and_pin, add_key and to_json/from_json round trips.
C17_RecordHasAKey ==
    \A key \in DOMAIN tools : Len(tools[key].pinned_keys) >= 1

\* add_key made the record of a pair that had none, next to another record
C17_Witness ==
    /\ call.op = "add_key"
    /\ composite_key(call.tool_id, call.domain) \notin DOMAIN pre_tools
    /\ composite_key(call.tool_id, call.domain) \in DOMAIN tools
    /\ Cardinality(DOMAIN tools) = 2

\* C18: the fingerprints of the pinned keys of a PinnedTool are pairwise
\* different, in every state reached by check_and_pin and add_key.
C18_FingerprintsUnique ==
    \A key \in DOMAIN tools :
        \A i, j \in 1..Len(tools[key].pinned_keys) :
            tools[key].pinned_keys[i].fingerprint = tools[key].pinned_keys[j].fingerprint
                => i = j

\* add_key was called with a fingerprint its record had already, next to
\* another one, and pushed nothing
C18_Witness ==
    /\ call.op = "add_key"
    /\ composite_key(call.tool_id, call.domain) \in DOMAIN pre_tools
    /\ LET pinned_keys == pre_tools[composite_key(call.tool_id, call.domain)].pinned_keys
       IN  /\ Len(pinned_keys) = 2
           /\ FindKey(pinned_keys, call.fingerprint) # 0
           /\ tools[composite_key(call.tool_id, call.domain)].pinned_keys = pinned_keys

\* two values are structurally equal: the same keys with structurally equal
\* values in every object, structurally equal items in the same order in
\* every array, the same strings and numbers
RECURSIVE StructEq(_, _)
StructEq(a, b) ==
    /\ a.t = b.t
    /\ IF a.t = "obj"
       THEN /\ Len(a.v) = Len(b.v)
            /\ \A i \in 1..Len(a.v) : \E j \in 1..Len(b.v) :
                    /\ a.v[i][1] = b.v[j][1]
                    /\ StructEq(a.v[i][2], b.v[j][2])
       ELSE IF a.t = "arr"
       THEN /\ Len(a.v) = Len(b.v)
            /\ \A i \in 1..Len(a.v) : StructEq(a.v[i], b.v[i])
       ELSE a.v = b.v

\* the keys of every object of a value, as it was read, ascend
RECURSIVE KeysAscend(_)
KeysAscend(value) ==
    IF value.t = "obj"
    THEN /\ \A i \in 1..(Len(value.v) - 1) : KeyLess(value.v[i][1], value.v[i + 1][1])
         /\ \A i \in 1..Len(value.v) : KeysAscend(value.v[i][2])
    ELSE IF value.t = "arr"
    THEN \A i \in 1..Len(value.v) : KeysAscend(value.v[i])
    ELSE TRUE

\* C19: canonicalize_schema is invariant under key reordering: structurally
\* equal values have the same canonical string, byte for byte, and that string
\* has the keys of every object in ascending order, at every nesting level, and
\* the items of every array in the order of the value.
C19_KeyOrderIndependent ==
    (call.op = "canonicalize_schema" /\ StructEq(call.a, call.b)) =>
        /\ result.a = result.b
        /\ KeysAscend(from_str(result.a))
        /\ StructEq(from_str(result.a), call.a)

\* an object of two members was given in both orders of its members, one of
\* them an object whose own members were reordered too
C19_Witness ==
    /\ call.op = "canonicalize_schema"
    /\ call.a.t = "obj"
    /\ Len(call.a.v) = 2
    /\ call.a.v[1][1] = call.b.v[2][1]
    /\ call.a.v[1][2].t = "obj"
    /\ call.a.v[1][2] # call.b.v[2][2]
    /\ StructEq(call.a, call.b)
    /\ result.a = result.b

C21_SignVerifyRoundTrip ==
    call.op = "verify_signature" =>
        \A k \in KeyIds, data \in Messages :
            (call.public_key_pem = Pem(k) /\ call.signature = sign_data(k, data)) =>
                /\ result.ok
                /\ result.valid = (data = call.data)

\* the signature of the keypair on other bytes was verified
C21_Witness ==
    /\ call.op = "verify_signature"
    /\ \E k \in KeyIds, data \in Messages :
        /\ call.public_key_pem = Pem(k)
        /\ call.signature = sign_data(k, data)
        /\ data # call.data
    /\ result.ok
    /\ ~result.valid

\* an input of verify_signature is malformed: the PEM is no public key, the
\* signature is not base64, or its bytes are no DER signature
MalformedInput ==
    \/ IsNone(from_public_key_pem(call.public_key_pem))
    \/ ~call.signature.base64
    \/ ~call.signature.der

\* C22 as stated: verify_signature returns false for a well-formed signature
\* that does not verify, and fails with the InvalidKeyFormat error for every
\* malformed input.
C22_Original ==
    call.op = "verify_signature" =>
        IF MalformedInput
        THEN ~result.ok /\ result.error = "InvalidKeyFormat"
        ELSE result.ok /\
             (result.valid <=>
                /\ call.signature.signer = from_public_key_pem(call.public_key_pem)
                /\ call.signature.signed = Some(call.data))

\* C22, amended: verify_signature returns false for a well-formed signature
\* that does not verify, and fails for every malformed input with the error of
\* the first step that fails: Spki for a PEM that is no public key, Base64 for
\* a signature that is not base64, InvalidKeyFormat for base64 of bytes that
\* are no DER signature.
C22_MalformedFailsByKind ==
    call.op = "verify_signature" =>
        IF IsNone(from_public_key_pem(call.public_key_pem))
        THEN ~result.ok /\ result.error = "Spki"
        ELSE IF ~call.signature.base64
        THEN ~result.ok /\ result.error = "Base64"
        ELSE IF ~call.signature.der
        THEN ~result.ok /\ result.error = "InvalidKeyFormat"
        ELSE result.ok /\
             (result.valid <=>
                /\ call.signature.signer = from_public_key_pem(call.public_key_pem)
                /\ call.signature.signed = Some(call.data))

\* a signature that is not base64 was verified under a public key that parses
C22_Witness ==
    /\ call.op = "verify_signature"
    /\ IsSome(from_public_key_pem(call.public_key_pem))
    /\ ~call.signature.base64
    /\ ~result.ok
    /\ result.error = "Base64"

\* what a directory holds, whatever the order of its listings: every entry
\* with its path, and with the bytes of a file
RECURSIVE Content(_, _)
Content(rel_dir, entries) ==
    UNION {{<<RelPath(rel_dir, entries[i].name), entries[i].kind, entries[i].link,
              entries[i].bytes>>}
           \cup Content(RelPath(rel_dir, entries[i].name), entries[i].entries) :
           i \in 1..Len(entries)}

\* C23: canonicalize_skill does not depend on the order in which the files
\* were created: directories with the same content have the same manifest and
\* the same root hash, or fail alike.
C23_CreationOrderIndependent ==
    (/\ call.op = "canonicalize_skill"
     /\ Content(<<>>, call.entries) = Content(<<>>, call.recreated)) =>
        result.first = result.second

\* read_dir yielded the entries of the directory and of a directory in it in
\* another order, and the manifest has more than one file
C23_Witness ==
    /\ call.op = "canonicalize_skill"
    /\ Len(call.entries) >= 2
    /\ call.entries[1].name # call.recreated[1].name
    /\ \E i, j \in 1..Len(call.entries) :
        /\ call.entries[i].kind = "dir"
        /\ call.recreated[j].name = call.entries[i].name
        /\ call.recreated[j].entries # call.entries[i].entries
    /\ result.first.ok
    /\ Len(result.first.manifest) >= 2
    /\ result.first = result.second

\* an entry is a symbolic link, or a file named .schemapin.sig
LinkOrSigFile(entry) ==
    \/ entry.link
    \/ (entry.kind = "file" /\ entry.name = SigFileName)

\* the directory without its links and its files named .schemapin.sig
RECURSIVE Stripped(_)
Stripped(entries) ==
    LET kept == SelectSeq(entries, LAMBDA entry : ~LinkOrSigFile(entry))
    IN  [i \in 1..Len(kept) |->
            IF kept[i].kind = "dir"
            THEN [kept[i] EXCEPT !.entries = Stripped(kept[i].entries)]
            ELSE kept[i]]

\* the paths of the links and sig files of a directory, and of what is under
\* a link
RECURSIVE SkippedPaths(_, _, _)
SkippedPaths(rel_dir, entries, under_link) ==
    UNION {(IF under_link \/ LinkOrSigFile(entries[i])
            THEN {RelPath(rel_dir, entries[i].name)} ELSE {})
           \cup SkippedPaths(RelPath(rel_dir, entries[i].name), entries[i].entries,
                             under_link \/ entries[i].link) :
           i \in 1..Len(entries)}

\* the path names a file called .schemapin.sig
NamesSigFile(path) ==
    /\ Len(path) >= Len(SigFileName)
    /\ SubSeq(path, Len(path) - Len(SigFileName) + 1, Len(path)) = SigFileName
    /\ (Len(path) = Len(SigFileName) \/ path[Len(path) - Len(SigFileName)] = 47)

\* C24: canonicalize_skill skips the files named .schemapin.sig at every
\* level and the symbolic links, to files and to directories: no key of the
\* manifest names one or lies under one, and the directory without them has
\* the same manifest and root hash.
C24_SigFilesAndLinksSkipped ==
    call.op = "canonicalize_skill" =>
        /\ result.first =
              canonicalize_skill([entries |-> Stripped(call.entries), sig_file |-> NoneV])
        /\ result.first.ok =>
              \A i \in 1..Len(result.first.manifest) :
                  /\ ~NamesSigFile(result.first.manifest[i][1])
                  /\ result.first.manifest[i][1] \notin SkippedPaths(<<>>, call.entries, FALSE)

\* the directory has a .schemapin.sig in a directory of it, a link to a
\* directory with a file, and a file that is recorded
C24_Witness ==
    /\ call.op = "canonicalize_skill"
    /\ \E i \in 1..Len(call.entries) :
        /\ call.entries[i].kind = "dir"
        /\ ~call.entries[i].link
        /\ \E j \in 1..Len(call.entries[i].entries) :
                call.entries[i].entries[j].name = SigFileName
    /\ \E i \in 1..Len(call.entries) :
        /\ call.entries[i].kind = "dir"
        /\ call.entries[i].link
    /\ result.first.ok
    /\ Stripped(call.entries) # call.entries

\* C25: after sign_skill, verify_skill_offline with the discovery document of
\* the signing key is valid while the files of the directory are the signed
\* ones, and fails with SIGNATURE_INVALID after a file is modified, added or
\* removed, or when the discovery key is another key.
C25_TamperingDetected ==
    call.op = "sign_and_verify" =>
        LET unchanged == /\ Content(<<>>, call.verified) = Content(<<>>, call.signed)
                         /\ call.discovery_key = call.k
        IN  IF unchanged
            THEN result.verification.valid
            ELSE /\ ~result.verification.valid
                 /\ result.verification.error_code = Some("SIGNATURE_INVALID")

\* The part of it on the files alone: with the signing key in the discovery
\* document, a directory whose files are not the signed ones is not valid.
\* The digest of a file is taken over its path followed by its bytes with
\* nothing between them, so the file "ab" with the bytes "c" and the file "a"
\* with the bytes "bc" have one digest, and this does not hold either.
ChangedFilesRejected ==
    (/\ call.op = "sign_and_verify"
     /\ call.discovery_key = call.k
     /\ Content(<<>>, call.verified) # Content(<<>>, call.signed)) =>
        ~result.verification.valid

\* the pin store with every first_seen and last_seen set to the reading
Restamped(store, reading) ==
    [key \in DOMAIN store |->
        [tool_id |-> store[key].tool_id, domain |-> store[key].domain,
         pinned_keys |->
            [i \in 1..Len(store[key].pinned_keys) |->
                [fingerprint |-> store[key].pinned_keys[i].fingerprint,
                 first_seen |-> reading, last_seen |-> reading,
                 trust_level |-> store[key].pinned_keys[i].trust_level]]]]

\* the result of the verification that was called, had the store been the
\* given one and the clock read the given value
VerificationAt(store, reading) ==
    CASE call.op = "verify_schema_offline" ->
            verify_schema_offline(call.schema, call.signature_b64, call.domain,
                                  call.tool_id, call.discovery, call.revocation,
                                  store, reading, reading).result
      [] call.op = "verify_schema_with_resolver" ->
            verify_schema_with_resolver(call.schema, call.signature_b64, call.domain,
                                        call.tool_id, call.resolver, store,
                                        reading, reading).result
      [] call.op = "verify_skill_offline" ->
            verify_skill_offline(call.skill_dir, call.discovery, call.signature_data,
                                 call.revocation_doc,
                                 IF call.with_store THEN Some(store) ELSE NoneV,
                                 call.tool_id, reading, reading).result
      [] call.op = "verify_skill_with_resolver" ->
            verify_skill_with_resolver(call.skill_dir, call.domain, call.resolver,
                                       IF call.with_store THEN Some(store) ELSE NoneV,
                                       call.tool_id, reading, reading).result

\* C26: valid and error_code of a verification are decided by the artifact,
\* the signature, the discovery and revocation documents and the pinned
\* fingerprints: whatever the clock read and whatever the first_seen and
\* last_seen in the pin store, they are what they are with the clock at 0 and
\* every first_seen and last_seen at 0.
C26_OutcomeIgnoresTime ==
    call.op \in {"verify_schema_offline", "verify_schema_with_resolver",
                 "verify_skill_offline", "verify_skill_with_resolver"} =>
        LET other == VerificationAt(Restamped(pre_tools, 0), 0)
        IN  /\ other.valid = result.valid
            /\ other.error_code = result.error_code

\* a verification that took the pin store found the key pinned at an earlier
\* reading of a clock that had moved on
C26_Witness ==
    /\ call.op \in {"verify_schema_offline", "verify_skill_offline"}
    /\ result.valid
    /\ result.key_pinning # NoneV
    /\ result.key_pinning[1].status = "pinned"
    /\ clock > 0
    /\ \E key \in DOMAIN pre_tools : \E i \in 1..Len(pre_tools[key].pinned_keys) :
        pre_tools[key].pinned_keys[i].last_seen < clock

\* the paths of a manifest, and of a list of paths
ManifestKeys(manifest) == {manifest[i][1] : i \in 1..Len(manifest)}
Listed(paths) == {paths[i] : i \in 1..Len(paths)}

\* the hash that the manifest has for a path of it
HashAt(manifest, path) ==
    (CHOOSE m \in {manifest[i] : i \in 1..Len(manifest)} : m[1] = path)[2]

\* C27: detect_tampered_files(current, signed) reports as added the keys of
\* current that signed does not have, as removed the keys of signed that
\* current does not have, and as modified the keys of both whose values
\* differ; the three are pairwise disjoint, and all are empty exactly when
\* the manifests are equal.
C27_TamperedFilesPartition ==
    call.op = "detect_tampered_files" =>
        LET files == result.files
            current == ManifestKeys(call.current)
            signed == ManifestKeys(call.signed)
        IN  /\ Listed(files.added) = current \ signed
            /\ Listed(files.removed) = signed \ current
            /\ Listed(files.modified) =
                  {path \in current \cap signed :
                      HashAt(call.current, path) # HashAt(call.signed, path)}
            /\ Listed(files.added) \cap Listed(files.removed) = {}
            /\ Listed(files.added) \cap Listed(files.modified) = {}
            /\ Listed(files.removed) \cap Listed(files.modified) = {}
            /\ (files.added = <<>> /\ files.removed = <<>> /\ files.modified = <<>>)
                  <=> call.current = call.signed

\* a file was added, one removed and one modified
C27_Witness ==
    /\ call.op = "detect_tampered_files"
    /\ result.files.added # <<>>
    /\ result.files.removed # <<>>
    /\ result.files.modified # <<>>

\* the verification got a revocation document from its resolver and came to
\* the revocation gate with it
RevocationGateReached ==
    /\ call.op \in ResolverOps
    /\ IsSome(UsedDiscovery)
    /\ UsedRevocation.ok
    /\ IsSome(UsedRevocation.val)
    /\ StepsBeforeRevocationGatePass
    /\ IsSome(KeyFingerprint)

\* C28: the revocation document that a verification for a domain takes from
\* its resolver has that domain in its domain field: a document of another
\* domain is never used in the revocation gate.
C28_RevocationDomainMatches ==
    RevocationGateReached => UsedRevocation.val[1].domain = call.domain

\* the fingerprints of a record, in the order they were pinned
FingerprintsOf(record) ==
    [i \in 1..Len(record.pinned_keys) |-> record.pinned_keys[i].fingerprint]

\* C29 as stated: a verification that returns valid=false leaves the pin
\* store unchanged, so a first use that fails with SIGNATURE_INVALID or
\* SCHEMA_CANONICALIZATION_FAILED does not leave the key pinned.
C29_Original ==
    (call.op \in VerifyOps /\ ~result.valid) => tools = pre_tools

\* C29: a verification that returns valid=false with a code other than
\* SIGNATURE_INVALID and SCHEMA_CANONICALIZATION_FAILED leaves the pin store
\* unchanged; one that fails with these after the pin gate leaves the store as
\* check_and_pin left it: the discovery key is pinned in a new record on
\* first use, the last_seen of the matched key is set, and every other record
\* and every list of fingerprints is as before.
C29_FailureKeepsStoreUpToPinGate ==
    (call.op \in VerifyOps /\ ~result.valid) =>
        /\ ErrorCode \notin {"SIGNATURE_INVALID", "SCHEMA_CANONICALIZATION_FAILED"} =>
              tools = pre_tools
        /\ tools # pre_tools =>
              /\ UsesStore /\ IsSome(PinPair) /\ IsSome(KeyFingerprint)
              /\ LET key == composite_key(PinPair[1][1], PinPair[1][2])
                 IN  /\ DOMAIN tools = DOMAIN pre_tools \cup {key}
                     /\ \A other \in DOMAIN pre_tools \ {key} :
                            tools[other] = pre_tools[other]
                     /\ IF key \in DOMAIN pre_tools
                        THEN /\ FingerprintsOf(tools[key]) = FingerprintsOf(pre_tools[key])
                             /\ \A i \in 1..Len(tools[key].pinned_keys) :
                                  \/ tools[key].pinned_keys[i] =
                                        pre_tools[key].pinned_keys[i]
                                  \/ /\ tools[key].pinned_keys[i].fingerprint =
                                           KeyFingerprint[1]
                                     /\ tools[key].pinned_keys[i].first_seen =
                                           pre_tools[key].pinned_keys[i].first_seen
                        ELSE FingerprintsOf(tools[key]) = <<KeyFingerprint[1]>>

\* the first verification for a pair passed the pin gate as first use, failed
\* on the signature and left the key pinned
C29_Witness ==
    /\ call.op \in VerifyOps
    /\ ~result.valid
    /\ ErrorCode = "SIGNATURE_INVALID"
    /\ IsSome(PinPair)
    /\ ~HasRecord(pre_tools, PinPair[1])
    /\ VerifyingKeyPinned

\* C30: verify_skill_with_resolver returns valid=true only if the domain of
\* the signature file is the domain argument, whose discovery document gave
\* the verifying key: the result reports the domain argument, and with a pin
\* store the key is pinned under it.
C30_ResultDomainIsArgument ==
    (call.op = "verify_skill_with_resolver" /\ result.valid) =>
        /\ UsedSignature[1].domain = call.domain
        /\ result.domain = Some(call.domain)
        /\ call.with_store => PinPair[1][2] = call.domain

\* C31: skill_name and domain of .schemapin.sig, which select the pin record
\* when the caller passes no tool_id, are bound to the signed directory: with
\* either of them changed after signing, and the directory, the signature and
\* the discovery document as they were, verify_skill_offline returns
\* valid=false and not a first use under a new pin record.
C31_PinSelectorsAreSigned ==
    (/\ call.op = "verify_edited_signature"
     /\ result.first.valid
     /\ call.edited # call.signed) =>
        ~result.verification.valid

\* the (relative path, file bytes) pairs of a directory of regular files
PathsAndBytes(entries) == {<<entries[i].name, entries[i].bytes>> : i \in 1..Len(entries)}

\* C32: with SHA-256 free of collisions the root hash is injective on the
\* content of a directory: two directories whose sets of (relative path, file
\* bytes) differ have different root hashes, also when the name of a file is
\* made longer by the first bytes of its content.
C32_RootHashInjective ==
    (/\ call.op = "canonicalize_two"
     /\ result.first.ok /\ result.second.ok
     /\ PathsAndBytes(call.entries) # PathsAndBytes(call.others)) =>
        result.first.root_hash # result.second.root_hash

\* the error code of the earliest step of verify_skill_offline that fails
SkillEarliestFailingStep ==
    IF IsNone(UsedSignature) THEN "SIGNATURE_INVALID"
    ELSE IF ~DiscoveryValidates(call.discovery) THEN "DISCOVERY_INVALID"
    ELSE IF IsNone(KeyFingerprint) THEN "KEY_NOT_FOUND"
    ELSE IF KeyRevoked THEN "KEY_REVOKED"
    ELSE IF /\ call.with_store
            /\ HasRecord(pre_tools, PinPair[1])
            /\ KeyFingerprint[1] \notin PinnedFor(pre_tools, PinPair[1])
    THEN "KEY_PIN_MISMATCH"
    ELSE IF IsNone(ArtifactDigest) THEN "SCHEMA_CANONICALIZATION_FAILED"
    ELSE IF ~SignatureVerifies THEN "SIGNATURE_INVALID"
    ELSE "none"

\* C33: the error code of verify_skill_offline is that of the earliest failing
\* step, in the order signature file, discovery validation, fingerprint,
\* revocation, pin gate, canonicalization of the directory, signature; when it
\* is KEY_PIN_MISMATCH the directory was not canonicalized.
C33_SkillEarliestFailingStepDecides ==
    call.op = "verify_skill_offline" =>
        /\ ErrorCode = SkillEarliestFailingStep
        /\ ErrorCode = "KEY_PIN_MISMATCH" => ~call.canonicalized

\* a key that is not the pinned one for a directory that cannot be
\* canonicalized: the pin gate is reported and the directory is left alone
C33_Witness ==
    /\ call.op = "verify_skill_offline"
    /\ ErrorCode = "KEY_PIN_MISMATCH"
    /\ IsNone(ArtifactDigest)
    /\ ~call.canonicalized

\* C34: on FirstUse check_and_pin creates the PinnedTool of tool_id@domain
\* with exactly one PinnedKey: the given fingerprint, trust_level tofu, and
\* first_seen and last_seen both the one reading of the clock.
C34_FirstUseRecord ==
    (call.op = "check_and_pin" /\ result.res = "FirstUse") =>
        LET key == composite_key(call.tool_id, call.domain)
        IN  /\ key \notin DOMAIN pre_tools
            /\ key \in DOMAIN tools
            /\ tools[key].tool_id = call.tool_id
            /\ tools[key].domain = call.domain
            /\ Len(tools[key].pinned_keys) = 1
            /\ tools[key].pinned_keys[1].fingerprint = call.fingerprint
            /\ tools[key].pinned_keys[1].trust_level = "Tofu"
            /\ tools[key].pinned_keys[1].first_seen = call.now
            /\ tools[key].pinned_keys[1].last_seen = call.now

\* a first use at a reading of the clock after the start, next to the record
\* of another pair
C34_Witness ==
    /\ call.op = "check_and_pin"
    /\ result.res = "FirstUse"
    /\ call.now > 0
    /\ pre_tools # << >>
    /\ composite_key(call.tool_id, call.domain) \in DOMAIN tools

\* the pinned key of the verified pair that has the fingerprint of the
\* discovery key, in a store
MatchedKey(store) ==
    LET record == store[composite_key(PinPair[1][1], PinPair[1][2])]
    IN  CHOOSE pk \in Elements(record.pinned_keys) : pk.fingerprint = KeyFingerprint[1]

\* C35: a successful verification whose pin outcome is Matched reports as
\* key_pinning.first_seen the first_seen stored for the pinned key that
\* matched, also when that key is not the first key of the record.
C35_MatchedFirstSeen ==
    (/\ call.op \in VerifyOps
     /\ result.valid
     /\ IsSome(result.key_pinning)
     /\ result.key_pinning[1].status = "pinned") =>
        result.key_pinning[1].first_seen = Some(MatchedKey(pre_tools).first_seen)

\* C36: a successful verification whose pin outcome is FirstUse reports as
\* key_pinning.first_seen the first_seen that the pin store records for the
\* key it has just pinned.
C36_FirstUseFirstSeen ==
    (/\ call.op \in VerifyOps
     /\ UsesStore
     /\ result.valid
     /\ ~HasRecord(pre_tools, PinPair[1])) =>
        /\ result.key_pinning[1].status = "first_use"
        /\ result.key_pinning[1].first_seen = Some(MatchedKey(tools).first_seen)

\* C37: with a clock that never goes backwards between the calls, every
\* pinned key of every record of the store has first_seen <= last_seen.
C37_FirstSeenBeforeLastSeen ==
    \A key \in DOMAIN tools : \A i \in 1..Len(tools[key].pinned_keys) :
        tools[key].pinned_keys[i].first_seen <= tools[key].pinned_keys[i].last_seen

\* a key pinned at one reading was matched at a later one, next to a key
\* that add_key pushed
C37_Witness ==
    \E key \in DOMAIN tools :
        /\ Len(tools[key].pinned_keys) >= 2
        /\ \E i \in 1..Len(tools[key].pinned_keys) :
            tools[key].pinned_keys[i].first_seen < tools[key].pinned_keys[i].last_seen

\* C38: after add_key(t, d, f2) on a record that pins f1, check_and_pin(t, d,
\* f1) and then check_and_pin(t, d, f2) both return Matched; add_key with a
\* fingerprint that is pinned for (t, d) leaves the record as it was.
C38_AddKeyRotates ==
    (call.op = "add_key" /\ HasRecord(pre_tools, <<call.tool_id, call.domain>>)) =>
        LET key == composite_key(call.tool_id, call.domain)
        IN  /\ \A f1 \in PinnedFor(pre_tools, <<call.tool_id, call.domain>>) :
                LET old == check_and_pin(tools, call.tool_id, call.domain, f1, clock)
                    new == check_and_pin(old.store, call.tool_id, call.domain,
                                         call.fingerprint, clock)
                IN  old.res = "Matched" /\ new.res = "Matched"
            /\ call.fingerprint \in PinnedFor(pre_tools, <<call.tool_id, call.domain>>) =>
                tools[key] = pre_tools[key]

\* add_key pushed a second key onto a record that pinned another
C38_Witness ==
    /\ call.op = "add_key"
    /\ HasRecord(pre_tools, <<call.tool_id, call.domain>>)
    /\ PinnedFor(pre_tools, <<call.tool_id, call.domain>>) # {}
    /\ call.fingerprint \notin PinnedFor(pre_tools, <<call.tool_id, call.domain>>)
    /\ call.fingerprint \in PinnedFor(tools, <<call.tool_id, call.domain>>)

\* C39: resolve_discovery of a TrustBundleResolver returns the document that
\* find_discovery returns on the bundle, for every bundle, also one that has
\* a domain more than once in documents, and fails exactly when find_discovery
\* returns none.
C39_ResolverAgreesWithFindDiscovery ==
    call.op = "find_discovery" =>
        /\ result.resolved.ok <=> IsSome(result.found)
        /\ result.resolved.ok => result.resolved.val = result.found[1].well_known

\* the directory has a regular file that is not a .schemapin.sig, at some
\* level and not under a link
RECURSIVE HasRegularFile(_)
HasRegularFile(entries) ==
    \E i \in 1..Len(entries) :
        /\ ~entries[i].link
        /\ IF entries[i].kind = "file"
           THEN entries[i].name # SigFileName
           ELSE HasRegularFile(entries[i].entries)

\* C40: for a directory with no regular files other than .schemapin.sig, and
\* with symbolic links at most, canonicalize_skill returns an error, and
\* verify_skill_offline with a supplied signature and a passing discovery,
\* revocation and pin gate returns valid=false with
\* SCHEMA_CANONICALIZATION_FAILED.
C40_EmptyDirectoryFails ==
    (call.op = "verify_supplied_signature" /\ ~HasRegularFile(call.entries)) =>
        /\ ~result.canonical.ok
        /\ ~result.verification.valid
        /\ result.verification.error_code = Some("SCHEMA_CANONICALIZATION_FAILED")

\* a directory with a .schemapin.sig, a link and a directory that has a link
\* only
C40_Witness ==
    /\ call.op = "verify_supplied_signature"
    /\ ~HasRegularFile(call.entries)
    /\ \E i \in 1..Len(call.entries) : call.entries[i].name = SigFileName
    /\ \E i \in 1..Len(call.entries) : call.entries[i].link
    /\ \E i \in 1..Len(call.entries) :
        call.entries[i].kind = "dir" /\ ~call.entries[i].link
    /\ result.verification.error_code = Some("SCHEMA_CANONICALIZATION_FAILED")

====
